---- MODULE Spec2Model ----
(***************************************************************************)
(* Model of the cursor pagination utility (shared/utils/cursor-pagination  *)
(* .util.ts): the cursor codec (encode / decode) and the page builder      *)
(* (buildResult) of CursorPaginator, with the id and date paginators.      *)
(*                                                                         *)
(* Text is modelled as sequences of code points (ASCII codes for the JSON  *)
(* punctuation), bytes as integers 0..255, and a token as the sequence of  *)
(* the characters of its base64url text.  JSON.stringify, JSON.parse,      *)
(* Buffer.from / toString and Date are modelled by what they compute.      *)
(***************************************************************************)
EXTENDS Integers, Sequences, FiniteSets, TLC

(***************************************************************************)
(* Bounds of the model.                                                    *)
(***************************************************************************)
\* longest batch of entities handed to buildResult
MaxEntities == 3
\* largest limit of a pagination request (the schema allows up to 100)
MaxLimit == 2

(***************************************************************************)
(* JavaScript values.  Every value has the same record shape:              *)
(*   t    the type tag                                                     *)
(*   s    the text of a string, the lexeme of a number, "true"/"false"     *)
(*   kids the elements of an array, or the <<key, value>> members of an    *)
(*        object in source order, or <<day, msOfDay>> of a Date            *)
(***************************************************************************)
JV(t, s, kids) == [t |-> t, s |-> s, kids |-> kids]
Undefined == JV("undefined", <<>>, <<>>)
JNull == JV("null", <<>>, <<>>)
JStr(s) == JV("str", s, <<>>)
JNum(lexeme) == JV("num", lexeme, <<>>)
JBool(lexeme) == JV("bool", lexeme, <<>>)
JArr(items) == JV("arr", <<>>, items)
JObj(members) == JV("obj", <<>>, members)
\* a Date is its time value split as Day(t) and TimeWithinDay(t)
JDate(day, ms) == JV("date", <<>>, <<day, ms>>)
InvalidDate == JV("date", <<>>, <<>>)

\* the outcome of a call that threw
Thrown == JV("thrown", <<>>, <<>>)

\* the two direction literals, as text
FORWARD == <<102, 111, 114, 119, 97, 114, 100>>
BACKWARD == <<98, 97, 99, 107, 119, 97, 114, 100>>
Forward == JStr(FORWARD)
Backward == JStr(BACKWARD)
Directions == {Forward, Backward}

(***************************************************************************)
(* Buffer.from(text) : UTF-8 encoding of a string.                         *)
(***************************************************************************)
Utf8OfCodePoint(cp) ==
    IF cp < 128 THEN <<cp>>
    ELSE IF cp < 2048 THEN <<192 + (cp \div 64), 128 + (cp % 64)>>
    ELSE <<224 + (cp \div 4096), 128 + ((cp \div 64) % 64), 128 + (cp % 64)>>

RECURSIVE Utf8Encode(_)
Utf8Encode(text) ==
    IF text = <<>> THEN <<>>
    ELSE Utf8OfCodePoint(Head(text)) \o Utf8Encode(Tail(text))

(***************************************************************************)
(* buffer.toString('utf-8') : UTF-8 decoding, an ill-formed byte becomes   *)
(* U+FFFD.  Sequences of one to three bytes are decoded.                   *)
(***************************************************************************)
IsCont(bytes, i) == i <= Len(bytes) /\ bytes[i] >= 128 /\ bytes[i] <= 191

RECURSIVE Utf8DecodeFrom(_, _)
Utf8DecodeFrom(bytes, i) ==
    IF i > Len(bytes) THEN <<>>
    ELSE LET b == bytes[i] IN
      IF b < 128 THEN <<b>> \o Utf8DecodeFrom(bytes, i + 1)
      ELSE IF b >= 194 /\ b <= 223 /\ IsCont(bytes, i + 1)
        THEN <<(b - 192) * 64 + (bytes[i + 1] - 128)>> \o Utf8DecodeFrom(bytes, i + 2)
      ELSE IF b >= 224 /\ b <= 239 /\ IsCont(bytes, i + 1) /\ IsCont(bytes, i + 2)
              /\ (b = 224 => bytes[i + 1] >= 160) /\ (b = 237 => bytes[i + 1] <= 159)
        THEN <<(b - 224) * 4096 + (bytes[i + 1] - 128) * 64 + (bytes[i + 2] - 128)>>
                \o Utf8DecodeFrom(bytes, i + 3)
      ELSE <<65533>> \o Utf8DecodeFrom(bytes, i + 1)

Utf8Decode(bytes) == Utf8DecodeFrom(bytes, 1)

(***************************************************************************)
(* buffer.toString('base64url') : three bytes become four characters of    *)
(* the URL-safe alphabet, no padding.                                      *)
(***************************************************************************)
B64Char(sextet) ==
    IF sextet < 26 THEN 65 + sextet
    ELSE IF sextet < 52 THEN 97 + (sextet - 26)
    ELSE IF sextet < 62 THEN 48 + (sextet - 52)
    ELSE IF sextet = 62 THEN 45
    ELSE 95

RECURSIVE Base64UrlEncode(_)
Base64UrlEncode(bytes) ==
    IF Len(bytes) = 0 THEN <<>>
    ELSE IF Len(bytes) = 1
      THEN <<B64Char(bytes[1] \div 4), B64Char((bytes[1] % 4) * 16)>>
    ELSE IF Len(bytes) = 2
      THEN <<B64Char(bytes[1] \div 4),
             B64Char((bytes[1] % 4) * 16 + (bytes[2] \div 16)),
             B64Char((bytes[2] % 16) * 4)>>
    ELSE <<B64Char(bytes[1] \div 4),
           B64Char((bytes[1] % 4) * 16 + (bytes[2] \div 16)),
           B64Char((bytes[2] % 16) * 4 + (bytes[3] \div 64)),
           B64Char(bytes[3] % 64)>>
         \o Base64UrlEncode(SubSeq(bytes, 4, Len(bytes)))

(***************************************************************************)
(* Buffer.from(text, 'base64url') : lenient decoding.  Characters of both  *)
(* base64 alphabets are accepted, any other character is skipped, and a    *)
(* trailing group of 2 or 3 characters gives 1 or 2 bytes.  Never throws.  *)
(***************************************************************************)
UnB64(c) ==
    IF c >= 65 /\ c <= 90 THEN c - 65
    ELSE IF c >= 97 /\ c <= 122 THEN c - 97 + 26
    ELSE IF c >= 48 /\ c <= 57 THEN c - 48 + 52
    ELSE IF c = 45 \/ c = 43 THEN 62
    ELSE IF c = 95 \/ c = 47 THEN 63
    ELSE -1

RECURSIVE Sextets(_)
Sextets(text) ==
    IF text = <<>> THEN <<>>
    ELSE IF UnB64(Head(text)) < 0 THEN Sextets(Tail(text))
    ELSE <<UnB64(Head(text))>> \o Sextets(Tail(text))

RECURSIVE BytesOfSextets(_)
BytesOfSextets(sx) ==
    IF Len(sx) < 2 THEN <<>>
    ELSE IF Len(sx) = 2 THEN <<sx[1] * 4 + (sx[2] \div 16)>>
    ELSE IF Len(sx) = 3
      THEN <<sx[1] * 4 + (sx[2] \div 16), (sx[2] % 16) * 16 + (sx[3] \div 4)>>
    ELSE <<sx[1] * 4 + (sx[2] \div 16),
           (sx[2] % 16) * 16 + (sx[3] \div 4),
           (sx[3] % 4) * 64 + sx[4]>>
         \o BytesOfSextets(SubSeq(sx, 5, Len(sx)))

Base64UrlDecode(text) == BytesOfSextets(Sextets(text))

(***************************************************************************)
(* JSON.stringify of a string: the quoted, escaped text.                   *)
(***************************************************************************)
HexDigit(n) == IF n < 10 THEN 48 + n ELSE 87 + n

EscapeChar(c) ==
    IF c = 34 THEN <<92, 34>>
    ELSE IF c = 92 THEN <<92, 92>>
    ELSE IF c = 8 THEN <<92, 98>>
    ELSE IF c = 12 THEN <<92, 102>>
    ELSE IF c = 10 THEN <<92, 110>>
    ELSE IF c = 13 THEN <<92, 114>>
    ELSE IF c = 9 THEN <<92, 116>>
    ELSE IF c < 32 THEN <<92, 117, 48, 48, HexDigit(c \div 16), HexDigit(c % 16)>>
    ELSE <<c>>

RECURSIVE EscapeText(_)
EscapeText(text) ==
    IF text = <<>> THEN <<>> ELSE EscapeChar(Head(text)) \o EscapeText(Tail(text))

QuoteJSONString(text) == <<34>> \o EscapeText(text) \o <<34>>

(***************************************************************************)
(* JSON.stringify({ v: <string>, d: <string> }) : the compact record       *)
(* {"v":"...","d":"..."}.                                                  *)
(***************************************************************************)
StringifyPayload(v, d) ==
    <<123, 34, 118, 34, 58>> \o QuoteJSONString(v)
      \o <<44, 34, 100, 34, 58>> \o QuoteJSONString(d) \o <<125>>

(***************************************************************************)
(* JSON.parse : a recursive descent parser of the JSON grammar.  A parse   *)
(* step returns [ok, v, i]: success, the value, the index after it.        *)
(***************************************************************************)
ParseFail == [ok |-> FALSE, v |-> Undefined, i |-> 0]
ParseOk(v, i) == [ok |-> TRUE, v |-> v, i |-> i]

IsWs(c) == c = 32 \/ c = 9 \/ c = 10 \/ c = 13
IsDigit(c) == c >= 48 /\ c <= 57

RECURSIVE SkipWs(_, _)
SkipWs(t, i) == IF i <= Len(t) /\ IsWs(t[i]) THEN SkipWs(t, i + 1) ELSE i

RECURSIVE DigitsEnd(_, _)
DigitsEnd(t, i) == IF i <= Len(t) /\ IsDigit(t[i]) THEN DigitsEnd(t, i + 1) ELSE i

HexVal(c) ==
    IF IsDigit(c) THEN c - 48
    ELSE IF c >= 97 /\ c <= 102 THEN c - 87
    ELSE IF c >= 65 /\ c <= 70 THEN c - 55
    ELSE -1

UnescapeChar(c) ==
    IF c = 34 \/ c = 92 \/ c = 47 THEN c
    ELSE IF c = 98 THEN 8
    ELSE IF c = 102 THEN 12
    ELSE IF c = 110 THEN 10
    ELSE IF c = 114 THEN 13
    ELSE IF c = 116 THEN 9
    ELSE -1

\* the characters of a string after its opening quote, from index i
RECURSIVE ParseStringBody(_, _, _)
ParseStringBody(t, i, acc) ==
    IF i > Len(t) THEN ParseFail
    ELSE IF t[i] = 34 THEN ParseOk(JStr(acc), i + 1)
    ELSE IF t[i] < 32 THEN ParseFail
    ELSE IF t[i] # 92 THEN ParseStringBody(t, i + 1, Append(acc, t[i]))
    ELSE IF i + 1 > Len(t) THEN ParseFail
    ELSE IF t[i + 1] = 117
      THEN IF i + 5 > Len(t) \/ \E k \in 2..5 : HexVal(t[i + k]) < 0
           THEN ParseFail
           ELSE ParseStringBody(t, i + 6,
                  Append(acc, HexVal(t[i + 2]) * 4096 + HexVal(t[i + 3]) * 256
                              + HexVal(t[i + 4]) * 16 + HexVal(t[i + 5])))
    ELSE IF UnescapeChar(t[i + 1]) < 0 THEN ParseFail
    ELSE ParseStringBody(t, i + 2, Append(acc, UnescapeChar(t[i + 1])))

\* a number: -? (0 | [1-9][0-9]*) (. [0-9]+)? ([eE] [+-]? [0-9]+)?
ParseNumber(t, i) ==
    LET a == IF t[i] = 45 THEN i + 1 ELSE i
        b == IF a <= Len(t) /\ t[a] = 48 THEN a + 1 ELSE DigitsEnd(t, a)
        c == IF b <= Len(t) /\ t[b] = 46 THEN DigitsEnd(t, b + 1) ELSE b
        e == IF c <= Len(t) /\ (t[c] = 101 \/ t[c] = 69)
             THEN IF c + 1 <= Len(t) /\ (t[c + 1] = 43 \/ t[c + 1] = 45)
                  THEN c + 2 ELSE c + 1
             ELSE c
        f == IF e > c THEN DigitsEnd(t, e) ELSE c
    IN  IF b = a THEN ParseFail
        ELSE IF b <= Len(t) /\ t[b] = 46 /\ c = b + 1 THEN ParseFail
        ELSE IF e > c /\ f = e THEN ParseFail
        ELSE ParseOk(JNum(SubSeq(t, i, f - 1)), f)

StartsWith(t, i, word) ==
    i + Len(word) - 1 <= Len(t) /\ SubSeq(t, i, i + Len(word) - 1) = word

ParseLiteral(t, i) ==
    IF StartsWith(t, i, <<110, 117, 108, 108>>) THEN ParseOk(JNull, i + 4)
    ELSE IF StartsWith(t, i, <<116, 114, 117, 101>>)
      THEN ParseOk(JBool(<<116, 114, 117, 101>>), i + 4)
    ELSE IF StartsWith(t, i, <<102, 97, 108, 115, 101>>)
      THEN ParseOk(JBool(<<102, 97, 108, 115, 101>>), i + 5)
    ELSE ParseFail

RECURSIVE ParseValue(_, _)
RECURSIVE ParseElements(_, _, _, _)
RECURSIVE ParseMembers(_, _, _, _)

ParseValue(t, i0) ==
    LET i == SkipWs(t, i0) IN
    IF i > Len(t) THEN ParseFail
    ELSE IF t[i] = 34 THEN ParseStringBody(t, i + 1, <<>>)
    ELSE IF t[i] = 123 THEN ParseMembers(t, i + 1, <<>>, TRUE)
    ELSE IF t[i] = 91 THEN ParseElements(t, i + 1, <<>>, TRUE)
    ELSE IF t[i] = 45 \/ IsDigit(t[i]) THEN ParseNumber(t, i)
    ELSE ParseLiteral(t, i)

\* the elements of an array after '[' or after ','
ParseElements(t, i, acc, mayClose) ==
    LET j == SkipWs(t, i) IN
    IF j > Len(t) THEN ParseFail
    ELSE IF mayClose /\ t[j] = 93 THEN ParseOk(JArr(acc), j + 1)
    ELSE LET r == ParseValue(t, j)
             k == SkipWs(t, r.i)
         IN  IF ~r.ok \/ k > Len(t) THEN ParseFail
             ELSE IF t[k] = 44 THEN ParseElements(t, k + 1, Append(acc, r.v), FALSE)
             ELSE IF t[k] = 93 THEN ParseOk(JArr(Append(acc, r.v)), k + 1)
             ELSE ParseFail

\* the members of an object after '{' or after ','
ParseMembers(t, i, acc, mayClose) ==
    LET j == SkipWs(t, i) IN
    IF j > Len(t) THEN ParseFail
    ELSE IF mayClose /\ t[j] = 125 THEN ParseOk(JObj(acc), j + 1)
    ELSE IF t[j] # 34 THEN ParseFail
    ELSE LET key == ParseStringBody(t, j + 1, <<>>)
             c == SkipWs(t, key.i)
             val == ParseValue(t, c + 1)
             k == SkipWs(t, val.i)
         IN  IF ~key.ok \/ c > Len(t) THEN ParseFail
             ELSE IF t[c] # 58 THEN ParseFail
             ELSE IF ~val.ok \/ k > Len(t) THEN ParseFail
             ELSE IF t[k] = 44
               THEN ParseMembers(t, k + 1, Append(acc, <<key.v.s, val.v>>), FALSE)
             ELSE IF t[k] = 125
               THEN ParseOk(JObj(Append(acc, <<key.v.s, val.v>>)), k + 1)
             ELSE ParseFail

\* JSON.parse(text): the value, or Thrown for a SyntaxError
JSONParse(text) ==
    LET r == ParseValue(text, 1) IN
    IF r.ok /\ SkipWs(text, r.i) > Len(text) THEN r.v ELSE Thrown

(***************************************************************************)
(* parsed.v, parsed.d : property read.  Reading a property of null throws  *)
(* a TypeError; a primitive or an array has no property v or d; an object  *)
(* gives the value of the last member with that key.                       *)
(***************************************************************************)
RECURSIVE LastMember(_, _, _)
LastMember(members, key, n) ==
    IF n = 0 THEN Undefined
    ELSE IF members[n][1] = key THEN members[n][2]
    ELSE LastMember(members, key, n - 1)

GetProp(x, key) ==
    IF x.t = "null" \/ x.t = "undefined" THEN Thrown
    ELSE IF x.t = "obj" THEN LastMember(x.kids, key, Len(x.kids))
    ELSE Undefined

(***************************************************************************)
(* Date.  A time value t is kept as <<Day(t), TimeWithinDay(t)>>, that is  *)
(* t = day * 86400000 + ms with 0 <= ms < 86400000.                        *)
(***************************************************************************)
\* the civil date <<year, month, day>> of a day number (days since 1970-01-01)
CivilFromDays(day) ==
    LET z == day + 719468
        era == z \div 146097
        doe == z - era * 146097
        yoe == (doe - (doe \div 1460) + (doe \div 36524) - (doe \div 146096)) \div 365
        doy == doe - (365 * yoe + (yoe \div 4) - (yoe \div 100))
        mp == (5 * doy + 2) \div 153
        d == doy - ((153 * mp + 2) \div 5) + 1
        m == IF mp < 10 THEN mp + 3 ELSE mp - 9
    IN  <<yoe + era * 400 + (IF m <= 2 THEN 1 ELSE 0), m, d>>

\* the day number of a civil date
DaysFromCivil(year, m, d) ==
    LET y == IF m <= 2 THEN year - 1 ELSE year
        era == y \div 400
        yoe == y - era * 400
        doy == ((153 * (IF m > 2 THEN m - 3 ELSE m + 9) + 2) \div 5) + d - 1
        doe == yoe * 365 + (yoe \div 4) - (yoe \div 100) + doy
    IN  era * 146097 + doe - 719468

IsLeapYear(y) == (y % 4 = 0 /\ y % 100 # 0) \/ y % 400 = 0

DaysInMonth(y, m) ==
    IF m = 2 THEN (IF IsLeapYear(y) THEN 29 ELSE 28)
    ELSE IF m \in {4, 6, 9, 11} THEN 30 ELSE 31

\* the decimal digits of n, zero padded to width
RECURSIVE Pad(_, _)
Pad(n, width) ==
    IF width = 0 THEN <<>> ELSE Append(Pad(n \div 10, width - 1), 48 + (n % 10))

\* the number written by the width digits of t at i, or -1
RECURSIVE NumAt(_, _, _)
NumAt(t, i, width) ==
    IF width = 0 THEN 0
    ELSE IF i + width - 1 > Len(t) \/ ~IsDigit(t[i + width - 1]) THEN -1
    ELSE LET hi == NumAt(t, i, width - 1) IN
         IF hi < 0 THEN -1 ELSE hi * 10 + (t[i + width - 1] - 48)

\* date.toISOString() of a valid Date: YYYY-MM-DDTHH:mm:ss.sssZ, with a
\* signed six digit year outside 0..9999
ToISOString(date) ==
    LET ymd == CivilFromDays(date.kids[1])
        ms == date.kids[2]
        year == IF ymd[1] >= 0 /\ ymd[1] <= 9999 THEN Pad(ymd[1], 4)
                ELSE IF ymd[1] < 0 THEN <<45>> \o Pad(0 - ymd[1], 6)
                ELSE <<43>> \o Pad(ymd[1], 6)
    IN  year \o <<45>> \o Pad(ymd[2], 2) \o <<45>> \o Pad(ymd[3], 2)
          \o <<84>> \o Pad(ms \div 3600000, 2)
          \o <<58>> \o Pad((ms \div 60000) % 60, 2)
          \o <<58>> \o Pad((ms \div 1000) % 60, 2)
          \o <<46>> \o Pad(ms % 1000, 3) \o <<90>>

\* new Date(text) for the date-time format of toISOString; any other text
\* is taken as unparsable and gives an invalid Date
ParseISODate(t) ==
    LET signed == Len(t) > 0 /\ (t[1] = 43 \/ t[1] = 45)
        o == IF signed THEN 7 ELSE 4
        y == IF signed THEN NumAt(t, 2, 6) ELSE NumAt(t, 1, 4)
        year == IF signed /\ t[1] = 45 THEN 0 - y ELSE y
        mo == NumAt(t, o + 2, 2)
        d == NumAt(t, o + 5, 2)
        h == NumAt(t, o + 8, 2)
        mi == NumAt(t, o + 11, 2)
        sec == NumAt(t, o + 14, 2)
        ms == NumAt(t, o + 17, 3)
    IN  IF Len(t) # o + 20 THEN InvalidDate
        ELSE IF t[o + 1] # 45 \/ t[o + 4] # 45 \/ t[o + 7] # 84 \/ t[o + 10] # 58
                \/ t[o + 13] # 58 \/ t[o + 16] # 46 \/ t[o + 20] # 90 THEN InvalidDate
        ELSE IF y < 0 \/ mo < 0 \/ d < 0 \/ h < 0 \/ mi < 0 \/ sec < 0 \/ ms < 0
          THEN InvalidDate
        ELSE IF signed /\ t[1] = 45 /\ y = 0 THEN InvalidDate
        ELSE IF mo < 1 \/ mo > 12 \/ d < 1 \/ d > DaysInMonth(year, mo) THEN InvalidDate
        ELSE IF h > 23 \/ mi > 59 \/ sec > 59 THEN InvalidDate
        ELSE JDate(DaysFromCivil(year, mo, d),
                   h * 3600000 + mi * 60000 + sec * 1000 + ms)

(***************************************************************************)
(* CursorPaginator.  A paginator is "id" (createIdPaginator: both hooks    *)
(* the identity) or "date" (createDatePaginator: toISOString / new Date).  *)
(***************************************************************************)
\* this.serializeCursor(value): the text written in field v
serializeCursor(kind, value) ==
    IF kind = "date" THEN ToISOString(value) ELSE value.s

\* this.deserializeCursor(parsed.v)
deserializeCursor(kind, v) ==
    IF kind = "date"
    THEN CASE v.t = "str" -> ParseISODate(v.s)
           [] v.t = "undefined" -> InvalidDate
           [] v.t = "null" -> JDate(0, 0)
    ELSE v

\* encode that writes 'forward' whatever the direction
encode_forwardOnly(kind, value, direction) ==
    Base64UrlEncode(Utf8Encode(StringifyPayload(serializeCursor(kind, value), FORWARD)))

\* encode(value, direction): the token text
encode(kind, value, direction) ==
    Base64UrlEncode(Utf8Encode(StringifyPayload(serializeCursor(kind, value), direction.s)))

\* the result of decode: null, or { value, direction }
NullCursor == [null |-> TRUE, value |-> Undefined, direction |-> Undefined]
DecodedCursor(value, direction) == [null |-> FALSE, value |-> value, direction |-> direction]

\* the return of decode for the value JSON.parse gave (Thrown: it threw);
\* reading parsed.v throws when parsed is null
decodeParsed(kind, parsed) ==
    IF parsed = Thrown THEN NullCursor
    ELSE IF GetProp(parsed, <<118>>) = Thrown THEN NullCursor
    ELSE DecodedCursor(deserializeCursor(kind, GetProp(parsed, <<118>>)),
                       GetProp(parsed, <<100>>))

\* decode(cursor): any exception of the try block gives null
decode(kind, cursor) ==
    decodeParsed(kind, JSONParse(Utf8Decode(Base64UrlDecode(cursor))))

(***************************************************************************)
(* buildResult(entities, options).  options is { limit, cursor,            *)
(* defaultDirection }, an absent field being undefined.  An entity is a    *)
(* record with its cursor key field id.                                    *)
(***************************************************************************)
\* JavaScript truthiness of a string or undefined
Truthy(x) == x.t = "str" /\ x.s # <<>>

\* a ?? b
Coalesce(a, b) == IF a.t = "undefined" \/ a.t = "null" THEN b ELSE a

\* this.decode(cursor)?.direction
OptDirection(d) == IF d.null THEN Undefined ELSE d.direction

\* the direction the page is built with
resolveDirection(kind, options) ==
    Coalesce(Coalesce(IF Truthy(options.cursor)
                      THEN OptDirection(decode(kind, options.cursor.s))
                      ELSE JNull,
                      options.defaultDirection),
             Forward)

\* array.slice(0, end)
Slice(arr, end) ==
    LET n == IF end < 0 THEN (IF Len(arr) + end < 0 THEN 0 ELSE Len(arr) + end)
             ELSE IF end > Len(arr) THEN Len(arr) ELSE end
    IN  SubSeq(arr, 1, n)

\* the order array.reverse() leaves the array in
Reverse(arr) == [i \in 1..Len(arr) |-> arr[Len(arr) + 1 - i]]

\* hasMore with >= for >
hasMore_atLeast(entities, limit) == Len(entities) >= limit

\* const hasMore = entities.length > limit
hasMore(entities, limit) == Len(entities) > limit

\* const items = hasMore ? entities.slice(0, limit) : entities
items(entities, limit) ==
    IF hasMore(entities, limit) THEN Slice(entities, limit) ELSE entities

\* data without the reversal
data_unreversed(direction, its) == its

\* const data = direction === 'backward' ? items.reverse() : items
data(direction, its) == IF direction = Backward THEN Reverse(its) ELSE its

\* hasNextPage taken from the over-fetch in both directions
hasNextPage_alwaysMore(direction, dt, more, cursor) ==
    IF Len(dt) > 0 THEN more ELSE FALSE

\* hasNextPage: false unless data.length > 0, then by direction
hasNextPage(direction, dt, more, cursor) ==
    IF Len(dt) > 0
    THEN (IF direction = Forward THEN more ELSE cursor # Undefined)
    ELSE FALSE

\* hasPrevPage testing the cursor for truthiness instead of !== undefined
hasPrevPage_truthy(direction, dt, more, cursor) ==
    IF Len(dt) > 0
    THEN (IF direction = Forward THEN Truthy(cursor) ELSE more)
    ELSE FALSE

\* hasPrevPage without the data.length > 0 test
hasPrevPage_unguarded(direction, dt, more, cursor) ==
    IF direction = Forward THEN cursor # Undefined ELSE more

\* hasPrevPage: false unless data.length > 0, then by direction
hasPrevPage(direction, dt, more, cursor) ==
    IF Len(dt) > 0
    THEN (IF direction = Forward THEN cursor # Undefined ELSE more)
    ELSE FALSE

\* nextCursor made of the first item instead of the last
nextCursor_firstItem(kind, hasNext, dt) ==
    IF hasNext /\ Len(dt) > 0
    THEN JStr(encode(kind, dt[1].id, Forward)) ELSE JNull

\* nextCursor: if (hasNextPage && lastItem) encode(lastItem[cursorKey], 'forward')
nextCursor(kind, hasNext, dt) ==
    IF hasNext /\ Len(dt) > 0
    THEN JStr(encode(kind, dt[Len(dt)].id, Forward)) ELSE JNull

\* prevCursor: if (hasPrevPage && firstItem) encode(firstItem[cursorKey], 'backward')
prevCursor(kind, hasPrev, dt) ==
    IF hasPrev /\ Len(dt) > 0
    THEN JStr(encode(kind, dt[1].id, Backward)) ELSE JNull

\* the returned object
pageOf(kind, dt, hasNext, hasPrev) ==
    [data |-> dt,
     pagination |-> [nextCursor |-> nextCursor(kind, hasNext, dt),
                     prevCursor |-> prevCursor(kind, hasPrev, dt),
                     hasNextPage |-> hasNext,
                     hasPrevPage |-> hasPrev,
                     count |-> Len(dt)]]

\* the page returned, and the entities array as the call leaves it:
\* items.reverse() reverses in place, and items is the entities array
\* itself when nothing was sliced off
buildFrom(kind, entities, cursor, direction, more, dt) ==
    [page |-> pageOf(kind, dt,
                     hasNextPage(direction, dt, more, cursor),
                     hasPrevPage(direction, dt, more, cursor)),
     entities |-> IF direction = Backward /\ ~more THEN dt ELSE entities]

\* the body of buildResult once the direction is resolved
buildDirected(kind, entities, options, direction) ==
    buildFrom(kind, entities, options.cursor, direction,
              hasMore(entities, options.limit),
              data(direction, items(entities, options.limit)))

buildResult(kind, entities, options) ==
    buildDirected(kind, entities, options, resolveDirection(kind, options))

(***************************************************************************)
(* Inputs.                                                                 *)
(***************************************************************************)
\* longest cursor value of the id paginator
MaxValueLen == 2
\* calls of buildResult made on one entities array
MaxCalls == 2

\* characters of cursor values: a " \ / newline e-acute
ValueChars == {97, 34, 92, 47, 10, 233}

Texts(chars, maxLen) == UNION {[1..n -> chars] : n \in 0..maxLen}

\* id/with+special=chars
SpecialCharsId == <<105, 100, 47, 119, 105, 116, 104, 43, 115, 112, 101, 99, 105, 97, 108, 61, 99, 104, 97, 114, 115>>

IdValues == {JStr(t) : t \in Texts(ValueChars, MaxValueLen) \cup {SpecialCharsId}}

\* days: the first and last instant, 0000-01-01, 1969-12-31, 1970-01-01,
\* 2000-02-29, 2024-01-15, 9999-12-31, +010000-01-01
DateDays == {-100000000, -719528, -1, 0, 11016, 19737, 2932896, 2932897, 100000000}
DateMs == {0, 1, 37800000, 86399999}
\* the valid Dates: the time value is within 8.64e15 ms of the epoch
DateValues == {JDate(d, ms) : d \in DateDays \ {100000000}, ms \in DateMs}
                 \cup {JDate(100000000, 0)}

ValuesOf(kind) == IF kind = "date" THEN DateValues ELSE IdValues

\* the token a client makes of a payload text
TokenOf(payload) == Base64UrlEncode(Utf8Encode(payload))

\* 5
PayloadNumber == <<53>>
\* "str"
PayloadString == <<34, 115, 116, 114, 34>>
\* []
PayloadArray == <<91, 93>>
\* null
PayloadNull == <<110, 117, 108, 108>>
\* true
PayloadTrue == <<116, 114, 117, 101>>
\* {}
PayloadEmptyObject == <<123, 125>>
\* {"v":"a"}
PayloadNoD == <<123, 34, 118, 34, 58, 34, 97, 34, 125>>
\* {"d":"forward"}
PayloadNoV == <<123, 34, 100, 34, 58, 34, 102, 111, 114, 119, 97, 114, 100, 34, 125>>
\* {"v":"a","d":"sideways"}
PayloadSideways == <<123, 34, 118, 34, 58, 34, 97, 34, 44, 34, 100, 34, 58, 34, 115, 105, 100, 101, 119, 97, 121, 115, 34, 125>>
\* {"v":"a","d":5}
PayloadNumberD == <<123, 34, 118, 34, 58, 34, 97, 34, 44, 34, 100, 34, 58, 53, 125>>
\* {"v":"a","d":null}
PayloadNullD == <<123, 34, 118, 34, 58, 34, 97, 34, 44, 34, 100, 34, 58, 110, 117, 108, 108, 125>>
\* {"v":"a","d":"forward","x":1}
PayloadExtraForward == <<123, 34, 118, 34, 58, 34, 97, 34, 44, 34, 100, 34, 58, 34, 102, 111, 114, 119, 97, 114, 100, 34, 44, 34, 120, 34, 58, 49, 125>>
\* {"x":[1],"v":"a","d":"backward"}
PayloadExtraBackward == <<123, 34, 120, 34, 58, 91, 49, 93, 44, 34, 118, 34, 58, 34, 97, 34, 44, 34, 100, 34, 58, 34, 98, 97, 99, 107, 119, 97, 114, 100, 34, 125>>
\* {"v":"a","d":"backward"}
PayloadPlainBackward == <<123, 34, 118, 34, 58, 34, 97, 34, 44, 34, 100, 34, 58, 34, 98, 97, 99, 107, 119, 97, 114, 100, 34, 125>>
\* {"v":"a","d":"forward"
PayloadTruncated == <<123, 34, 118, 34, 58, 34, 97, 34, 44, 34, 100, 34, 58, 34, 102, 111, 114, 119, 97, 114, 100, 34>>
\* not json
PayloadWords == <<110, 111, 116, 32, 106, 115, 111, 110>>

ClientPayloads ==
    {PayloadNumber, PayloadString, PayloadArray, PayloadNull,
     PayloadTrue, PayloadEmptyObject, PayloadNoD, PayloadNoV,
     PayloadSideways, PayloadNumberD, PayloadNullD, PayloadExtraForward,
     PayloadExtraBackward, PayloadPlainBackward, PayloadTruncated, PayloadWords}

\* invalid-base64
TextInvalidBase64 == <<105, 110, 118, 97, 108, 105, 100, 45, 98, 97, 115, 101, 54, 52>>
\* not-valid-base64!!
TextNotValidBase64 == <<110, 111, 116, 45, 118, 97, 108, 105, 100, 45, 98, 97, 115, 101, 54, 52, 33, 33>>

\* the cursor strings a client sends that encode did not make
ClientTokens ==
    {<<>>, TextInvalidBase64, TextNotValidBase64} \cup {TokenOf(p) : p \in ClientPayloads}

\* i1 i2 i3
EntityIds == {<<105, 49>>, <<105, 50>>, <<105, 51>>}
Entities == {[id |-> JStr(t)] : t \in EntityIds}
EntityBatches == UNION {[1..n -> Entities] : n \in 0..MaxEntities}

\* options.cursor: absent, empty, made by encode, or sent by a client
CursorInputs ==
    {Undefined, JStr(<<>>),
     JStr(encode("id", JStr(<<105, 49>>), Forward)),
     JStr(encode("id", JStr(<<105, 51>>), Backward)),
     JStr(TextInvalidBase64),
     JStr(TokenOf(PayloadSideways)),
     JStr(TokenOf(PayloadNoD)),
     JStr(TokenOf(PayloadNumber))}

OptionsSet ==
    [limit : 0..MaxLimit, cursor : CursorInputs,
     defaultDirection : {Undefined, Forward, Backward}]

NoOptions == [limit |-> 0, cursor |-> Undefined, defaultDirection |-> Undefined]
NoPage == buildResult("id", <<>>, NoOptions).page

(***************************************************************************)
(* State.                                                                  *)
(***************************************************************************)
VARIABLES
    kind,             \* the paginator: "id" or "date"
    cursorValue,      \* encode's argument value
    cursorDirection,  \* encode's argument direction
    token,            \* the cursor string in hand, undefined before there is one
    origin,           \* who made the token: "none", "encode" or "client"
    decoded,          \* what decode(token) returned
    cpc,              \* codec: "start", "token", "decoded", or "off"
    entities,         \* the array passed to buildResult
    options,          \* the options passed to buildResult
    callEntities,     \* the contents of entities when buildResult was last called
    page,             \* the page buildResult last returned
    calls,            \* number of buildResult calls made
    schemaName,       \* the schema parsing: "cursorPagination", "paginationRequest"
    schemaInput,      \* the object given to schema.parse: { limit, cursor }
    schemaOutput,     \* what parse returned, or that it threw
    voCursor,         \* the Cursor value object c
    voOther,          \* the Cursor that equals compares with
    voToken,          \* the encoded string in hand
    voOrigin,         \* who made it: "none", "encode" or "client"
    voDecoded,        \* what Cursor.decode(voToken) returned
    voEquals,         \* what voDecoded.equals(voOther) returned: "none", "true", "false"
    vpc,              \* value object: "start", "token", "decoded", "compared", or "off"
    results,          \* the array given to all()
    allOut,           \* what all(results) returned
    chainFns,         \* the functions of a chain of andThen steps, in order
    chainPos,         \* the step of the chain to take next
    chainResult,      \* the Result the chain has reached
    invoked,          \* the functions andThen has invoked, in order
    rpc,              \* Result: "all", "allDone", "chain", or "off"
    repo,             \* the repository: "prisma", "firestore", or "none"
    store,            \* the records the table or collection holds
    request,          \* the paginationOptions of the last findManyPaginated call
    response,         \* the page that call returned
    seen,             \* the ids of the data of the pages fetched so far, in order
    walking,          \* the fetches so far are a forward traversal from no cursor
    fetches,          \* number of findManyPaginated calls made
    writes,           \* number of writes other clients made since the first fetch
    survivors,        \* the ids in the store ever since the first fetch
    callers,          \* the update, delete and softDelete calls in flight, by caller
    hidden,           \* the ids whose softDelete has returned Ok
    query,            \* the last findMany, findManyPaginated or count call and its result
    ops,              \* number of update, delete and softDelete calls made
    registrations,    \* the container's Map: token -> registration, or none
    invocations,      \* per token, the factory invocations since its registration
    resolves,         \* per token, the resolve calls since its registration
    firstResolved,    \* per token, what the first resolve since its registration returned
    lastResolve,      \* the last resolve call: its token and what it returned or threw
    registered,       \* the tokens a register* call named since the last clear()
    replaced,         \* per token, the instance cached in the registration its last register* replaced
    nextId,           \* the identity the next object constructed will have
    cops              \* number of container calls made

codecVars == <<kind, cursorValue, cursorDirection, token, origin, decoded, cpc>>
pageVars == <<entities, options, callEntities, page, calls>>
schemaVars == <<schemaName, schemaInput, schemaOutput>>
voVars == <<voCursor, voOther, voToken, voOrigin, voDecoded, voEquals, vpc>>

resultVars == <<results, allOut, chainFns, chainPos, chainResult, invoked, rpc>>
repoVars == <<repo, store, request, response, seen, walking, fetches, writes, survivors>>
walkVars == <<request, response, seen, walking, fetches, writes, survivors>>
writeVars == <<callers, hidden, query, ops>>
containerVars ==
    <<registrations, invocations, resolves, firstResolved, lastResolve, registered,
      replaced, nextId, cops>>

vars ==
    <<codecVars, pageVars, schemaVars, voVars, resultVars, repoVars, writeVars,
      containerVars>>

\* the variables of the parts added to the codec and the page builder
restVars == <<schemaVars, voVars, resultVars, repoVars, writeVars, containerVars>>
\* the variables outside each of these parts
exceptSchemaVars ==
    <<codecVars, pageVars, voVars, resultVars, repoVars, writeVars, containerVars>>
exceptVoVars ==
    <<codecVars, pageVars, schemaVars, resultVars, repoVars, writeVars, containerVars>>
exceptResultVars ==
    <<codecVars, pageVars, schemaVars, voVars, repoVars, writeVars, containerVars>>
exceptRepoVars ==
    <<codecVars, pageVars, schemaVars, voVars, resultVars, writeVars, containerVars>>
exceptWriteVars ==
    <<codecVars, pageVars, schemaVars, voVars, resultVars, walkVars, containerVars>>
exceptContainerVars ==
    <<codecVars, pageVars, schemaVars, voVars, resultVars, repoVars, writeVars>>

\* the codec at rest
IdleCodec ==
    /\ kind = "id"
    /\ cursorValue = JStr(<<>>)
    /\ cursorDirection = Forward
    /\ token = Undefined
    /\ origin = "none"
    /\ decoded = NullCursor
    /\ cpc = "off"

\* no call of buildResult under way
IdlePage ==
    /\ entities = <<>>
    /\ options = NoOptions
    /\ callEntities = <<>>
    /\ page = NoPage
    /\ calls = 0

\* schema.parse has not returned
NotParsed == [state |-> "none", limit |-> 0, cursor |-> Undefined]

\* no schema is parsing
IdleSchema ==
    /\ schemaName = "none"
    /\ schemaInput = [limit |-> Undefined, cursor |-> Undefined]
    /\ schemaOutput = NotParsed

\* no Cursor value object in hand
IdleVo ==
    /\ voCursor = NullCursor
    /\ voOther = NullCursor
    /\ voToken = Undefined
    /\ voOrigin = "none"
    /\ voDecoded = NullCursor
    /\ voEquals = "none"
    /\ vpc = "off"

\* ok(value), err(error)
ok(value) == [ok |-> TRUE, value |-> value]
err(error) == [ok |-> FALSE, error |-> error]

\* no Result in hand
IdleResult ==
    /\ results = <<>>
    /\ allOut = ok(<<>>)
    /\ chainFns = <<>>
    /\ chainPos = 1
    /\ chainResult = ok(0)
    /\ invoked = <<>>
    /\ rpc = "off"

\* no repository in use
IdleWalk ==
    /\ request = NoOptions
    /\ response = NoPage
    /\ seen = <<>>
    /\ walking = FALSE
    /\ fetches = 0
    /\ writes = 0
    /\ survivors = {}

IdleRepo == repo = "none" /\ store = {} /\ IdleWalk

\* the callers of the repository's write methods
Callers == {1, 2}
\* a caller with no call in flight
IdleCaller ==
    [op |-> "none", id |-> <<>>, pc |-> "idle", out |-> [pending |-> TRUE],
     wrote |-> 0, gone |-> FALSE, existed |-> FALSE, overlapped |-> FALSE]
NoQuery == [method |-> "none"]

IdleWrite ==
    /\ callers = [c \in Callers |-> IdleCaller]
    /\ hidden = {}
    /\ query = NoQuery
    /\ ops = 0

\* TOKENS of the container
Tokens == {"Logger", "LoggerFactory"}
NoRegistration == [lifecycle |-> "none"]
NoResolve == [token |-> "none"]

IdleContainer ==
    /\ registrations = [t \in Tokens |-> NoRegistration]
    /\ invocations = [t \in Tokens |-> 0]
    /\ resolves = [t \in Tokens |-> 0]
    /\ firstResolved = [t \in Tokens |-> Undefined]
    /\ lastResolve = NoResolve
    /\ registered = {}
    /\ replaced = [t \in Tokens |-> Undefined]
    /\ nextId = 1
    /\ cops = 0

IdleRest == IdleSchema /\ IdleVo /\ IdleResult /\ IdleRepo /\ IdleWrite /\ IdleContainer
IdleExceptSchema ==
    IdleCodec /\ IdlePage /\ IdleVo /\ IdleResult /\ IdleRepo /\ IdleWrite /\ IdleContainer
IdleExceptVo ==
    IdleCodec /\ IdlePage /\ IdleSchema /\ IdleResult /\ IdleRepo /\ IdleWrite /\ IdleContainer
IdleExceptResult ==
    IdleCodec /\ IdlePage /\ IdleSchema /\ IdleVo /\ IdleRepo /\ IdleWrite /\ IdleContainer
IdleExceptRepo ==
    IdleCodec /\ IdlePage /\ IdleSchema /\ IdleVo /\ IdleResult /\ IdleWrite /\ IdleContainer
IdleExceptWrite ==
    IdleCodec /\ IdlePage /\ IdleSchema /\ IdleVo /\ IdleResult /\ IdleWalk /\ IdleContainer
IdleExceptContainer ==
    IdleCodec /\ IdlePage /\ IdleSchema /\ IdleVo /\ IdleResult /\ IdleRepo /\ IdleWrite

(***************************************************************************)
(* The cursor codec: encode a value, or receive a token from a client,     *)
(* then decode the token.                                                  *)
(***************************************************************************)
InitCodec ==
    /\ kind \in {"id", "date"}
    /\ cursorValue \in ValuesOf(kind)
    /\ cursorDirection \in Directions
    /\ token = Undefined
    /\ origin = "none"
    /\ decoded = NullCursor
    /\ cpc = "start"
    /\ entities = <<>>
    /\ options = NoOptions
    /\ callEntities = <<>>
    /\ page = NoPage
    /\ calls = 0
    /\ IdleRest

Encode ==
    /\ cpc = "start"
    /\ token' = JStr(encode(kind, cursorValue, cursorDirection))
    /\ origin' = "encode"
    /\ cpc' = "token"
    /\ UNCHANGED <<kind, cursorValue, cursorDirection, decoded>>
    /\ UNCHANGED pageVars
    /\ UNCHANGED restVars

Receive ==
    /\ cpc = "start"
    /\ kind = "id"
    /\ \E t \in ClientTokens : token' = JStr(t)
    /\ origin' = "client"
    /\ cpc' = "token"
    /\ UNCHANGED <<kind, cursorValue, cursorDirection, decoded>>
    /\ UNCHANGED pageVars
    /\ UNCHANGED restVars

Decode ==
    /\ cpc = "token"
    /\ decoded' = decode(kind, token.s)
    /\ cpc' = "decoded"
    /\ UNCHANGED <<kind, cursorValue, cursorDirection, token, origin>>
    /\ UNCHANGED pageVars
    /\ UNCHANGED restVars

NextCodec == Encode \/ Receive \/ Decode

SpecCodec == InitCodec /\ [][NextCodec]_vars

(***************************************************************************)
(* The page builder: buildResult is called on an entities array with the   *)
(* options of a request, and may be called again on the same array.        *)
(***************************************************************************)
InitPage ==
    /\ kind = "id"
    /\ cursorValue = JStr(<<>>)
    /\ cursorDirection = Forward
    /\ token = Undefined
    /\ origin = "none"
    /\ decoded = NullCursor
    /\ cpc = "off"
    /\ entities \in EntityBatches
    /\ options \in OptionsSet
    /\ callEntities = <<>>
    /\ page = NoPage
    /\ calls = 0
    /\ IdleRest

BuildResult ==
    /\ calls < MaxCalls
    /\ LET r == buildResult(kind, entities, options) IN
         /\ page' = r.page
         /\ entities' = r.entities
    /\ callEntities' = entities
    /\ calls' = calls + 1
    /\ UNCHANGED options
    /\ UNCHANGED codecVars
    /\ UNCHANGED restVars

NextPage == BuildResult

SpecPage == InitPage /\ [][NextPage]_vars

(***************************************************************************)
(* Properties of the cursor codec (SpecCodec).                             *)
(***************************************************************************)
\* C1: round trip.  Decoding the token encode made of a value and a
\* direction gives a non-null cursor with that value and that direction,
\* for the id paginator and every string, and for the date paginator and
\* every valid Date.
CodecRoundTrip ==
    (cpc = "decoded" /\ origin = "encode")
        => decoded = DecodedCursor(cursorValue, cursorDirection)

CodecRoundTripWitness ==
    /\ cpc = "decoded"
    /\ origin = "encode"
    /\ kind = "id"
    /\ cursorValue = JStr(<<34, 92>>)
    /\ cursorDirection = Backward
    /\ ~decoded.null

\* the text is made of characters of the base64url alphabet only
IsBase64UrlText(t) ==
    \A i \in 1..Len(t) : UnB64(t[i]) >= 0 /\ t[i] \notin {43, 47}

\* the JSON value a token carries, Thrown when its payload is not JSON
PayloadOf(t) == JSONParse(Utf8Decode(Base64UrlDecode(t)))

HasMember(x, key) == \E i \in 1..Len(x.kids) : x.kids[i][1] = key

\* the payload is an object carrying v and d
IsCursorRecord(x) == x.t = "obj" /\ HasMember(x, <<118>>) /\ HasMember(x, <<100>>)

\* C2: invalid-input safety.  decode never raises (it returns null or a
\* cursor), and it returns null for the empty string, for a text that is
\* not base64url, and for base64url whose payload is not JSON or is JSON
\* that is not an object carrying v and d.
DecodeRejectsMalformed ==
    (/\ cpc = "decoded"
     /\ origin = "client"
     /\ \/ token.s = <<>>
        \/ ~IsBase64UrlText(token.s)
        \/ ~IsCursorRecord(PayloadOf(token.s)))
        => decoded.null

\* C3: field validation.  For a token whose payload is a JSON object,
\* decode returns null when v is missing, d is missing, or d is not one of
\* the two direction literals; otherwise the decoded cursor is (v, d)
\* whatever other members the object has.
DecodeValidatesFields ==
    (cpc = "decoded" /\ origin = "client" /\ PayloadOf(token.s).t = "obj")
        => LET p == PayloadOf(token.s)
               v == GetProp(p, <<118>>)
               d == GetProp(p, <<100>>)
           IN  IF ~HasMember(p, <<118>>) \/ ~HasMember(p, <<100>>) \/ d \notin Directions
               THEN decoded.null
               ELSE decoded = DecodedCursor(v, d)

(***************************************************************************)
(* Properties of the page builder (SpecPage).  callEntities is the batch   *)
(* as it was passed to the call that returned page.                        *)
(***************************************************************************)
Min(a, b) == IF a < b THEN a ELSE b

\* the direction the call built the page with
EffectiveDirection == resolveDirection(kind, options)

\* the first min(length, limit) entities of the batch
Window == SubSeq(callEntities, 1, Min(Len(callEntities), options.limit))

\* C4: windowing.  For a limit of at least 1, data has min(entities.length,
\* limit) items and count is data.length; the flag that depends on hasMore
\* (hasNextPage when forward, hasPrevPage when backward) is true exactly
\* when entities.length > limit.
Windowing ==
    (calls > 0 /\ options.limit >= 1)
        => /\ Len(page.data) = Min(Len(callEntities), options.limit)
           /\ page.pagination.count = Len(page.data)
           /\ EffectiveDirection = Forward
                => (page.pagination.hasNextPage <=> Len(callEntities) > options.limit)
           /\ EffectiveDirection = Backward
                => (page.pagination.hasPrevPage <=> Len(callEntities) > options.limit)

WindowingWitness ==
    /\ calls > 0
    /\ options.limit >= 1
    /\ Len(callEntities) = options.limit
    /\ EffectiveDirection = Backward
    /\ Len(page.data) = options.limit
    /\ ~page.pagination.hasPrevPage

\* C5: forward flags.  When the effective direction is forward and data is
\* not empty, hasNextPage is (entities.length > limit) and hasPrevPage is
\* (options.cursor is present).
ForwardFlags ==
    (calls > 0 /\ EffectiveDirection = Forward /\ Len(page.data) > 0)
        => /\ page.pagination.hasNextPage <=> Len(callEntities) > options.limit
           /\ page.pagination.hasPrevPage <=> options.cursor # Undefined

ForwardFlagsWitness ==
    /\ calls > 0
    /\ EffectiveDirection = Forward
    /\ Len(page.data) > 0
    /\ options.cursor = JStr(<<>>)
    /\ page.pagination.hasPrevPage
    /\ ~page.pagination.hasNextPage

\* C6: backward flags.  When the effective direction is backward and data
\* is not empty, hasNextPage is (options.cursor is present) and hasPrevPage
\* is (entities.length > limit).
BackwardFlags ==
    (calls > 0 /\ EffectiveDirection = Backward /\ Len(page.data) > 0)
        => /\ page.pagination.hasNextPage <=> options.cursor # Undefined
           /\ page.pagination.hasPrevPage <=> Len(callEntities) > options.limit

BackwardFlagsWitness ==
    /\ calls > 0
    /\ EffectiveDirection = Backward
    /\ Len(page.data) > 0
    /\ options.cursor # Undefined
    /\ page.pagination.hasNextPage
    /\ Len(callEntities) > options.limit
    /\ page.pagination.hasPrevPage

\* C7: navigation cursors.  nextCursor is present exactly when hasNextPage
\* is true and then decodes to (key of the last item of data, forward);
\* prevCursor is present exactly when hasPrevPage is true and then decodes
\* to (key of the first item of data, backward).
NavigationCursors ==
    calls > 0
        => /\ page.pagination.nextCursor # JNull <=> page.pagination.hasNextPage
           /\ page.pagination.prevCursor # JNull <=> page.pagination.hasPrevPage
           /\ page.pagination.hasNextPage
                => decode(kind, page.pagination.nextCursor.s)
                     = DecodedCursor(page.data[Len(page.data)].id, Forward)
           /\ page.pagination.hasPrevPage
                => decode(kind, page.pagination.prevCursor.s)
                     = DecodedCursor(page.data[1].id, Backward)

NavigationCursorsWitness ==
    /\ calls > 0
    /\ EffectiveDirection = Backward
    /\ Len(page.data) > 1
    /\ page.data[1] # page.data[Len(page.data)]
    /\ page.pagination.hasNextPage
    /\ page.pagination.hasPrevPage
    /\ page.pagination.nextCursor # JNull
    /\ page.pagination.prevCursor # JNull

\* C8: empty input.  When entities is empty the page has no data, count 0,
\* both cursors absent and both flags false, for every limit, cursor and
\* defaultDirection.
EmptyInput ==
    (calls > 0 /\ callEntities = <<>>)
        => /\ page.data = <<>>
           /\ page.pagination.count = 0
           /\ page.pagination.nextCursor = JNull
           /\ page.pagination.prevCursor = JNull
           /\ ~page.pagination.hasNextPage
           /\ ~page.pagination.hasPrevPage

EmptyInputWitness ==
    /\ calls > 0
    /\ callEntities = <<>>
    /\ options.cursor # Undefined
    /\ Truthy(options.cursor)
    /\ EffectiveDirection = Forward
    /\ options.defaultDirection = Backward
    /\ page.data = <<>>

\* C9: direction reversal.  When the effective direction is backward, data
\* is the first min(entities.length, limit) entities in reversed order;
\* when it is forward, data is those entities in input order.
DirectionReversal ==
    calls > 0
        => /\ EffectiveDirection = Backward => page.data = Reverse(Window)
           /\ EffectiveDirection = Forward => page.data = Window

DirectionReversalWitness ==
    /\ calls > 0
    /\ EffectiveDirection = Backward
    /\ Len(callEntities) > options.limit
    /\ Len(page.data) > 1
    /\ page.data # Window
    /\ page.data = Reverse(Window)

\* the cursor string is present and is the token of a cursor: decode gives
\* a value and one of the two directions
DecodesSuccessfully(cursor) ==
    /\ cursor # Undefined
    /\ ~decode(kind, cursor.s).null
    /\ decode(kind, cursor.s).direction \in Directions

\* C10: effective direction.  If options.cursor decodes successfully the
\* page is built with the cursor's direction whatever defaultDirection is;
\* if the cursor is absent or does not decode, the page is built with
\* defaultDirection, and with forward when defaultDirection is not given.
EffectiveDirectionRule ==
    calls > 0
        => EffectiveDirection =
             IF DecodesSuccessfully(options.cursor)
             THEN decode(kind, options.cursor.s).direction
             ELSE Coalesce(options.defaultDirection, Forward)

\* C11: purity of the page builder.  A call of buildResult leaves the
\* entities array (contents and order) and the options as they were, and a
\* second call with the same array and options returns an equal page.
BuildResultPure ==
    [][/\ entities' = entities
       /\ options' = options
       /\ calls = 1 => page' = page]_vars

(***************************************************************************)
(* The request schemas: z.object({ limit: z.coerce.number().int().min(1)   *)
(* .max(100).default(20), cursor: z.string().optional() }).                *)
(*                                                                         *)
(* A number is [nan, int, n]: not a number, or an integer n, or a finite   *)
(* number that is not an integer (n is then not used).                     *)
(***************************************************************************)
NaN == [nan |-> TRUE, int |-> FALSE, n |-> 0]
IntNum(n) == [nan |-> FALSE, int |-> TRUE, n |-> n]
FracNum == [nan |-> FALSE, int |-> FALSE, n |-> 0]

RECURSIVE Pow10(_)
Pow10(k) == IF k = 0 THEN 1 ELSE 10 * Pow10(k - 1)

\* the text without leading and trailing white space
RECURSIVE TrimEnd(_)
TrimEnd(t) == IF t # <<>> /\ IsWs(t[Len(t)]) THEN TrimEnd(SubSeq(t, 1, Len(t) - 1)) ELSE t
Trim(t) == TrimEnd(SubSeq(t, SkipWs(t, 1), Len(t)))

\* the value of mantissa * 10^(-scale)
Scaled(negative, mantissa, scale) ==
    IF scale <= 0
    THEN IntNum((IF negative THEN -1 ELSE 1) * mantissa * Pow10(0 - scale))
    ELSE IF mantissa % Pow10(scale) = 0
    THEN IntNum((IF negative THEN -1 ELSE 1) * (mantissa \div Pow10(scale)))
    ELSE FracNum

\* a decimal literal from index i (after the sign): digits, an optional
\* fraction, an optional exponent, to the end of the text
DecimalLiteral(t, negative, i, a, b) ==
    \* a: end of the integer digits; b: end of the fraction digits
    LET fracLen == IF b > a THEN b - a - 1 ELSE 0
        hasExp == b <= Len(t) /\ (t[b] = 101 \/ t[b] = 69)
        expNeg == hasExp /\ b + 1 <= Len(t) /\ t[b + 1] = 45
        e == IF hasExp /\ b + 1 <= Len(t) /\ (t[b + 1] = 43 \/ t[b + 1] = 45)
             THEN b + 2 ELSE b + 1
        f == IF hasExp THEN DigitsEnd(t, e) ELSE b
        exponent == IF hasExp THEN (IF expNeg THEN -1 ELSE 1) * NumAt(t, e, f - e) ELSE 0
        mantissa == NumAt(t, i, a - i) * Pow10(fracLen)
                      + (IF fracLen > 0 THEN NumAt(t, a + 1, fracLen) ELSE 0)
    IN  IF (a - i) + fracLen = 0 THEN NaN
        ELSE IF hasExp /\ f = e THEN NaN
        ELSE IF f # Len(t) + 1 THEN NaN
        ELSE Scaled(negative, mantissa, fracLen - exponent)

DecimalFrom(t, negative, i, a) ==
    DecimalLiteral(t, negative, i, a,
                   IF a <= Len(t) /\ t[a] = 46 THEN DigitsEnd(t, a + 1) ELSE a)

\* Number(text) for decimal literals: white space is trimmed, the empty
\* text is 0, text that is not a number is NaN
StringToNumberTrimmed(t) ==
    IF t = <<>> THEN IntNum(0)
    ELSE IF t[1] = 43 \/ t[1] = 45
      THEN DecimalFrom(t, t[1] = 45, 2, DigitsEnd(t, 2))
    ELSE DecimalFrom(t, FALSE, 1, DigitsEnd(t, 1))

StringToNumber(text) == StringToNumberTrimmed(Trim(text))

\* Number(x), the coercion of z.coerce.number()
ToNumber(x) ==
    CASE x.t = "undefined" -> NaN
      [] x.t = "null" -> IntNum(0)
      [] x.t = "bool" -> IntNum(IF x.s = <<116, 114, 117, 101>> THEN 1 ELSE 0)
      [] x.t = "num" -> StringToNumber(x.s)
      [] x.t = "str" -> StringToNumber(x.s)

\* the outcome of a field: rejected, or accepted with a value
Rejected == [ok |-> FALSE, n |-> 0, v |-> Undefined]
AcceptedNumber(n) == [ok |-> TRUE, n |-> n, v |-> Undefined]
AcceptedValue(v) == [ok |-> TRUE, n |-> 0, v |-> v]

\* .int().min(lo).max(hi) on the coerced number
zIntInRange(c, lo, hi) ==
    IF c.nan \/ ~c.int THEN Rejected
    ELSE IF c.n < lo \/ c.n > hi THEN Rejected
    ELSE AcceptedNumber(c.n)

\* z.coerce.number().int().min(lo).max(hi).default(dflt): an absent field
\* is replaced by the default before the number is parsed
zLimit(x, lo, hi, dflt) ==
    IF x.t = "undefined" THEN zIntInRange(IntNum(dflt), lo, hi)
    ELSE zIntInRange(ToNumber(x), lo, hi)

\* z.string().optional()
zOptionalString(x) ==
    IF x.t = "undefined" \/ x.t = "str" THEN AcceptedValue(x) ELSE Rejected

\* z.object({ limit, cursor }).parse: the parsed object, or a ZodError thrown
zObject(limit, cursor) ==
    IF limit.ok /\ cursor.ok
    THEN [state |-> "ok", limit |-> limit.n, cursor |-> cursor.v]
    ELSE [state |-> "threw", limit |-> 0, cursor |-> Undefined]

\* cursorPaginationSchema accepting 101
cursorPaginationSchema_upTo101(input) ==
    zObject(zLimit(input.limit, 1, 101, 20), zOptionalString(input.cursor))

cursorPaginationSchema(input) ==
    zObject(zLimit(input.limit, 1, 100, 20), zOptionalString(input.cursor))

paginationRequestSchema(input) ==
    zObject(zLimit(input.limit, 1, 100, 20), zOptionalString(input.cursor))

\* the decimal text of a number
RECURSIVE DecimalDigits(_)
DecimalDigits(n) ==
    IF n < 10 THEN <<48 + n>> ELSE Append(DecimalDigits(n \div 10), 48 + (n % 10))
DecimalText(n) == IF n < 0 THEN <<45>> \o DecimalDigits(0 - n) ELSE DecimalDigits(n)

\* limits around the two ends of the range and the default
ProbeLimits == {-1, 0, 1, 2, 20, 25, 50, 99, 100, 101, 1000}

\* other texts sent as limit: empty, abc, 1.5, 1.0, 1e2, 1e3, 5e-1, +5, 007,
\* a 7 between blanks, 100.5, a lone dot, 1e
OtherLimitTexts ==
    {<<>>, <<97, 98, 99>>, <<49, 46, 53>>, <<49, 46, 48>>, <<49, 101, 50>>,
     <<49, 101, 51>>, <<53, 101, 45, 49>>, <<43, 53>>, <<48, 48, 55>>,
     <<32, 55, 32>>, <<49, 48, 48, 46, 53>>, <<46>>, <<49, 101>>}

LimitInputs ==
    {Undefined, JNull, JBool(<<116, 114, 117, 101>>), JBool(<<102, 97, 108, 115, 101>>)}
      \cup {JNum(DecimalText(n)) : n \in ProbeLimits}
      \cup {JNum(<<49, 46, 53>>)}
      \cup {JStr(DecimalText(n)) : n \in ProbeLimits}
      \cup {JStr(t) : t \in OtherLimitTexts}

\* some-base64-cursor
SomeCursorText == <<115, 111, 109, 101, 45, 98, 97, 115, 101, 54, 52, 45, 99, 117, 114, 115, 111, 114>>

SchemaCursorInputs == {Undefined, JStr(<<>>), JStr(SomeCursorText), JNum(<<53>>)}

SchemaInputs == [limit : LimitInputs, cursor : SchemaCursorInputs]

InitSchema ==
    /\ IdleExceptSchema
    /\ schemaName \in {"cursorPagination", "paginationRequest"}
    /\ schemaInput \in SchemaInputs
    /\ schemaOutput = NotParsed

\* schema.parse(input)
Parse ==
    /\ schemaName # "none"
    /\ schemaOutput.state = "none"
    /\ schemaOutput' = IF schemaName = "cursorPagination"
                       THEN cursorPaginationSchema(schemaInput)
                       ELSE paginationRequestSchema(schemaInput)
    /\ UNCHANGED <<schemaName, schemaInput>>
    /\ UNCHANGED exceptSchemaVars

NextSchema == Parse

SpecSchema == InitSchema /\ [][NextSchema]_vars

\* the cursor given is absent or a string
CursorGivenIsValid == schemaInput.cursor.t \in {"undefined", "str"}

\* the integer the limit given coerces to is in 1..100
LimitGivenIsValid ==
    /\ ~ToNumber(schemaInput.limit).nan
    /\ ToNumber(schemaInput.limit).int
    /\ ToNumber(schemaInput.limit).n \in 1..100

\* C12: request limit validation.  Both schemas accept a limit exactly
\* when it coerces to an integer in 1..100 and return that integer; a
\* missing limit yields 20; 0, 101 and every other value are rejected; the
\* cursor is optional and passes through unchanged.
LimitValidation ==
    (schemaOutput.state # "none" /\ CursorGivenIsValid)
        => /\ schemaInput.limit = Undefined
                => schemaOutput.state = "ok" /\ schemaOutput.limit = 20
           /\ schemaInput.limit # Undefined
                => /\ schemaOutput.state = "ok" <=> LimitGivenIsValid
                   /\ schemaOutput.state = "ok"
                        => schemaOutput.limit = ToNumber(schemaInput.limit).n
           /\ schemaOutput.state = "ok" => schemaOutput.cursor = schemaInput.cursor

LimitValidationWitness ==
    /\ schemaName = "cursorPagination"
    /\ schemaInput.limit = JStr(<<49, 48, 49>>)
    /\ schemaInput.cursor = JStr(SomeCursorText)
    /\ schemaOutput.state = "threw"

(***************************************************************************)
(* The Cursor value object: Cursor.forward / Cursor.backward make a        *)
(* cursor, c.encode() its string, Cursor.decode(string) a cursor or null,  *)
(* a.equals(b) compares two cursors.                                       *)
(***************************************************************************)
\* cursorPayloadSchema with d: z.string()
cursorPayloadSchema_anyDirection(x) ==
    IF x = Thrown THEN Thrown
    ELSE IF x.t # "obj" THEN Thrown
    ELSE IF GetProp(x, <<118>>).t # "str" THEN Thrown
    ELSE IF GetProp(x, <<100>>).t # "str" THEN Thrown
    ELSE JObj(<<<<(<<118>>), GetProp(x, <<118>>)>>, <<(<<100>>), GetProp(x, <<100>>)>>>>)

\* cursorPayloadSchema.parse(x): the object { v, d } without the members
\* the schema does not name, or a ZodError thrown; an exception of
\* JSON.parse goes through
cursorPayloadSchema(x) ==
    IF x = Thrown THEN Thrown
    ELSE IF x.t # "obj" THEN Thrown
    ELSE IF GetProp(x, <<118>>).t # "str" THEN Thrown
    ELSE IF GetProp(x, <<100>>) \notin {Forward, Backward} THEN Thrown
    ELSE JObj(<<<<(<<118>>), GetProp(x, <<118>>)>>, <<(<<100>>), GetProp(x, <<100>>)>>>>)

\* new Cursor(parsed.v, parsed.d), null in the catch
Cursor_ofParsed(parsed) ==
    IF parsed = Thrown THEN NullCursor
    ELSE DecodedCursor(GetProp(parsed, <<118>>), GetProp(parsed, <<100>>))

\* Cursor.decode(encoded)
Cursor_decode(encoded) ==
    Cursor_ofParsed(cursorPayloadSchema(JSONParse(Utf8Decode(Base64UrlDecode(encoded)))))

\* c.encode()
Cursor_encode(c) ==
    Base64UrlEncode(Utf8Encode(StringifyPayload(c.value.s, c.direction.s)))

\* a.equals(b)
Cursor_equals(a, b) == a.value = b.value /\ a.direction = b.direction

\* Cursor.forward(value), Cursor.backward(value)
Cursor_forward(value) == DecodedCursor(value, Forward)
Cursor_backward(value) == DecodedCursor(value, Backward)

Cursors == {Cursor_forward(v) : v \in IdValues} \cup {Cursor_backward(v) : v \in IdValues}

\* the token of a Cursor followed by '=', and by '!'
PaddedTokens == {Cursor_encode(Cursor_forward(JStr(<<97>>))) \o <<61>>,
                 Cursor_encode(Cursor_backward(JStr(<<97>>))) \o <<33>>}

\* cursors to compare c with: c, c turned, c with another value
OthersOf(c) ==
    {c, DecodedCursor(c.value, IF c.direction = Forward THEN Backward ELSE Forward),
     DecodedCursor(JStr(c.value.s \o <<97>>), c.direction)}

InitCursor ==
    /\ IdleExceptVo
    /\ voCursor \in Cursors
    /\ voOther = NullCursor
    /\ voToken = Undefined
    /\ voOrigin = "none"
    /\ voDecoded = NullCursor
    /\ voEquals = "none"
    /\ vpc = "start"

CursorEncode ==
    /\ vpc = "start"
    /\ voToken' = JStr(Cursor_encode(voCursor))
    /\ voOrigin' = "encode"
    /\ vpc' = "token"
    /\ UNCHANGED <<voCursor, voOther, voDecoded, voEquals>>
    /\ UNCHANGED exceptVoVars

\* a string arrives that c.encode() did not make
CursorReceive ==
    /\ vpc = "start"
    /\ voCursor = Cursor_forward(JStr(<<>>))
    /\ \E t \in ClientTokens \cup PaddedTokens : voToken' = JStr(t)
    /\ voOrigin' = "client"
    /\ vpc' = "token"
    /\ UNCHANGED <<voCursor, voOther, voDecoded, voEquals>>
    /\ UNCHANGED exceptVoVars

CursorDecode ==
    /\ vpc = "token"
    /\ voDecoded' = Cursor_decode(voToken.s)
    /\ vpc' = "decoded"
    /\ UNCHANGED <<voCursor, voOther, voToken, voOrigin, voEquals>>
    /\ UNCHANGED exceptVoVars

CursorEquals ==
    /\ vpc = "decoded"
    /\ ~voDecoded.null
    /\ \E o \in OthersOf(voDecoded) :
         /\ voOther' = o
         /\ voEquals' = IF Cursor_equals(voDecoded, o) THEN "true" ELSE "false"
    /\ vpc' = "compared"
    /\ UNCHANGED <<voCursor, voToken, voOrigin, voDecoded>>
    /\ UNCHANGED exceptVoVars

NextCursor == CursorEncode \/ CursorReceive \/ CursorDecode \/ CursorEquals

SpecCursor == InitCursor /\ [][NextCursor]_vars

\* Cursor.decode has returned
CursorDecoded == vpc \in {"decoded", "compared"}

\* decode(c.encode()) is a cursor with the value and direction of c
CursorRoundTrip ==
    (CursorDecoded /\ voOrigin = "encode")
        => /\ ~voDecoded.null
           /\ voDecoded.value = voCursor.value
           /\ voDecoded.direction = voCursor.direction

\* equals is true exactly for the same value and the same direction
CursorEquality ==
    vpc = "compared"
        => (voEquals = "true"
              <=> (voOther.value = voDecoded.value /\ voOther.direction = voDecoded.direction))

\* the string is c.encode() of some Cursor c: it decodes, and encoding the
\* decoded cursor gives the string back
IsCursorEncoding(t) ==
    /\ ~Cursor_decode(t).null
    /\ Cursor_encode(Cursor_decode(t)) = t

IsCursorPayload(x) ==
    /\ x.t = "obj"
    /\ HasMember(x, <<118>>) /\ GetProp(x, <<118>>).t = "str"
    /\ HasMember(x, <<100>>) /\ GetProp(x, <<100>>).s \in {FORWARD, BACKWARD}
    /\ GetProp(x, <<100>>).t = "str"

MaxResults == 3
\* longest chain of andThen steps
MaxSteps == 3

isOk(result) == result.ok = TRUE
isErr(result) == result.ok = FALSE

\* the loop of all() from element i on, values holding the values pushed
RECURSIVE allFrom(_, _, _)
allFrom(rs, i, values) ==
    IF i > Len(rs) THEN ok(values)
    ELSE IF isErr(rs[i]) THEN rs[i]
    ELSE allFrom(rs, i + 1, Append(values, rs[i].value))

\* all() passing over the Err elements
all_okOnly(rs) == allFrom(SelectSeq(rs, isOk), 1, <<>>)

\* all(results)
all(rs) == allFrom(rs, 1, <<>>)

\* the functions given to andThen: safeDivide(x, 0), safeDivide(x, 1),
\* safeDivide(x, 2), and one that rejects every value
Fns == {"divideBy0", "divideBy1", "divideBy2", "reject"}

\* b === 0 ? err('division by zero') : ok(a / b), on values b divides
safeDivide(a, b) == IF b = 0 THEN err("division by zero") ELSE ok(a \div b)

\* fn(value)
Apply(fn, value) ==
    CASE fn = "divideBy0" -> safeDivide(value, 0)
      [] fn = "divideBy1" -> safeDivide(value, 1)
      [] fn = "divideBy2" -> safeDivide(value, 2)
      [] fn = "reject" -> err("rejected")

\* andThen invoking fn on an Err as well
andThen_invokesOnErr(result, fn) ==
    IF isOk(result)
    THEN [result |-> Apply(fn, result.value), invoked |-> <<fn>>]
    ELSE [result |-> result, invoked |-> <<fn>>]

\* andThen(result, fn): what it returns, and the calls of fn it made
andThen(result, fn) ==
    IF isOk(result)
    THEN [result |-> Apply(fn, result.value), invoked |-> <<fn>>]
    ELSE [result |-> result, invoked |-> <<>>]

ResultElements == {ok(1), ok(2), err("first failed"), err("second failed")}
ResultLists == UNION {[1..n -> ResultElements] : n \in 0..MaxResults}

\* values that 2 divides MaxSteps + 1 times
ChainStarts == {ok(16), ok(48), err("initial error")}
Chains == UNION {[1..n -> Fns] : n \in 0..MaxSteps}

InitResult ==
    /\ IdleExceptResult
    /\ \/ /\ rpc = "all"
          /\ results \in ResultLists
          /\ chainFns = <<>>
          /\ chainResult = ok(0)
       \/ /\ rpc = "chain"
          /\ results = <<>>
          /\ chainFns \in Chains
          /\ chainResult \in ChainStarts
    /\ allOut = ok(<<>>)
    /\ chainPos = 1
    /\ invoked = <<>>

\* all(results)
All ==
    /\ rpc = "all"
    /\ allOut' = all(results)
    /\ rpc' = "allDone"
    /\ UNCHANGED <<results, chainFns, chainPos, chainResult, invoked>>
    /\ UNCHANGED exceptResultVars

\* the next step of the chain: andThen(chainResult, fn)
AndThen ==
    /\ rpc = "chain"
    /\ chainPos <= Len(chainFns)
    /\ chainResult' = andThen(chainResult, chainFns[chainPos]).result
    /\ invoked' = invoked \o andThen(chainResult, chainFns[chainPos]).invoked
    /\ chainPos' = chainPos + 1
    /\ UNCHANGED <<results, allOut, chainFns, rpc>>
    /\ UNCHANGED exceptResultVars

NextResult == All \/ AndThen

SpecResult == InitResult /\ [][NextResult]_vars

\* the index of the first Err element, 0 when every element is Ok
RECURSIVE FirstErr(_, _)
FirstErr(rs, i) ==
    IF i > Len(rs) THEN 0 ELSE IF ~rs[i].ok THEN i ELSE FirstErr(rs, i + 1)

\* C14: all().  all(results) is Ok carrying the values of all elements in
\* input order when every element is Ok (Ok of the empty array for the
\* empty array), and otherwise is the first Err element in array order,
\* whatever elements follow it.
AllCombines ==
    rpc = "allDone"
        => IF FirstErr(results, 1) = 0
           THEN /\ allOut.ok
                /\ Len(allOut.value) = Len(results)
                /\ \A i \in 1..Len(results) : allOut.value[i] = results[i].value
           ELSE allOut = results[FirstErr(results, 1)]

AllCombinesWitness ==
    /\ rpc = "allDone"
    /\ results = <<ok(1), err("second failed"), err("first failed")>>
    /\ allOut = err("second failed")

\* C15: andThen().  A step on Ok(value) returns fn(value) and invokes fn
\* once; a step on Err returns the same Err and invokes nothing; hence
\* once a chain has produced an Err it keeps that Err and no later function
\* runs.
AndThenChains ==
    [][rpc = "chain" /\ chainPos' = chainPos + 1
         => /\ chainResult.ok
                => /\ chainResult' = Apply(chainFns[chainPos], chainResult.value)
                   /\ invoked' = Append(invoked, chainFns[chainPos])
            /\ ~chainResult.ok
                => /\ chainResult' = chainResult
                   /\ invoked' = invoked]_vars

AndThenChainsWitness ==
    /\ rpc = "chain"
    /\ chainFns = <<"divideBy2", "reject", "divideBy0">>
    /\ chainPos = 4
    /\ chainResult = err("rejected")
    /\ invoked = <<"divideBy2", "reject">>

(***************************************************************************)
(* The repositories: findManyPaginated of PrismaBaseRepository and of      *)
(* FirestoreBaseRepository over a store of records { id, deletedAt }.      *)
(* Both use a paginator on the key id with identity (de)serialization.     *)
(***************************************************************************)
\* number of ids a store can hold
MaxRecords == 4
\* largest limit asked of a repository
MaxPageLimit == 2
\* writes other clients make during one traversal
MaxWrites == 2

\* a < b for two strings, by code points
RECURSIVE TextLessFrom(_, _, _)
TextLessFrom(a, b, i) ==
    IF i > Len(b) THEN FALSE
    ELSE IF i > Len(a) THEN TRUE
    ELSE IF a[i] < b[i] THEN TRUE
    ELSE IF a[i] > b[i] THEN FALSE
    ELSE TextLessFrom(a, b, i + 1)
TextLess(a, b) == TextLessFrom(a, b, 1)

\* the record of a set with the least id
LeastRecord(rs) == CHOOSE r \in rs : \A q \in rs : q = r \/ TextLess(r.id.s, q.id.s)

\* orderBy id asc
RECURSIVE OrderAsc(_)
OrderAscFrom(rs, least) == <<least>> \o OrderAsc(rs \ {least})
OrderAsc(rs) == IF rs = {} THEN <<>> ELSE OrderAscFrom(rs, LeastRecord(rs))

\* orderBy id in the direction given
OrderById(rs, direction) ==
    IF direction = "desc" THEN Reverse(OrderAsc(rs)) ELSE OrderAsc(rs)

\* take: n, limit(n)
Take(arr, n) == SubSeq(arr, 1, IF n < Len(arr) THEN n ELSE Len(arr))

\* toDomain on every record
toDomain(r) == [id |-> r.id]
toDomainAll(records) == [i \in 1..Len(records) |-> toDomain(records[i])]

\* const decoded = cursor ? this.paginator.decode(cursor) : null
decodedOf(opts) ==
    IF Truthy(opts.cursor) THEN decode("id", opts.cursor.s) ELSE NullCursor

\* orderBy: desc when decoded?.direction === 'backward', else asc
orderByOf(dec) == IF ~dec.null /\ dec.direction = Backward THEN "desc" ELSE "asc"

\* a where clause { id, deletedAt }: undefined for a field not filtered on
NoWhere == [id |-> Undefined, deletedAt |-> Undefined]
\* queryOptions not given: no where, includeSoftDeleted falsy
NoQueryOptions == [where |-> NoWhere, includeSoftDeleted |-> FALSE]

\* buildWhereClause(options): options.where, with deletedAt: null set over
\* it unless includeSoftDeleted
buildWhereClause(qo) ==
    IF qo.includeSoftDeleted THEN qo.where ELSE [qo.where EXCEPT !.deletedAt = JNull]

\* the records a where clause of equalities selects
Matching(st, where) ==
    {r \in st : /\ where.id = Undefined \/ r.id = where.id
                /\ where.deletedAt = Undefined \/ r.deletedAt = where.deletedAt}

\* { ...where, ...cursorWhere }: the cursor's id condition replaces an id
\* of the where clause
spreadCursorWhere(where, dec) ==
    IF dec.null THEN where ELSE [where EXCEPT !.id = Undefined]

\* cursorWhere with gte for gt
cursorWhere_inclusive(dec, rs) ==
    IF dec.null THEN rs
    ELSE IF dec.direction = Forward
    THEN {r \in rs : ~TextLess(r.id.s, dec.value.s)}
    ELSE {r \in rs : TextLess(r.id.s, dec.value.s)}

\* cursorWhere: id gt value for a forward cursor, id lt value otherwise
cursorWhere(dec, rs) ==
    IF dec.null THEN rs
    ELSE IF dec.direction = Forward
    THEN {r \in rs : TextLess(dec.value.s, r.id.s)}
    ELSE {r \in rs : TextLess(r.id.s, dec.value.s)}

\* the records prisma's findMany returns
prismaRecords(st, dec, limit, qo) ==
    Take(OrderById(cursorWhere(dec, Matching(st, spreadCursorWhere(buildWhereClause(qo), dec))),
                   orderByOf(dec)),
         limit + 1)

\* PrismaBaseRepository.findManyPaginated(paginationOptions, queryOptions)
Prisma_findManyPaginated(st, opts, qo) ==
    buildResult("id", toDomainAll(prismaRecords(st, decodedOf(opts), opts.limit, qo)), opts).page

\* PrismaBaseRepository.findMany(options): the entities returned (their
\* order, by another field, is not modelled)
Prisma_findMany(st, qo) == {toDomain(r) : r \in Matching(st, buildWhereClause(qo))}

\* PrismaBaseRepository.count(options)
Prisma_count(st, qo) == Cardinality(Matching(st, buildWhereClause(qo)))

\* the Firestore query after query.where(key, '==', value) for every value
\* of options.where that is not undefined
firestoreWhere(st, qo) == Matching(st, qo.where)

\* query.startAfter(decoded.value) in the order of the query
startAfter(dec, rs, direction) ==
    IF dec.null THEN rs
    ELSE IF direction = "asc"
    THEN {r \in rs : TextLess(dec.value.s, r.id.s)}
    ELSE {r \in rs : TextLess(r.id.s, dec.value.s)}

\* snapshot.docs
firestoreDocs(st, dec, limit, qo) ==
    Take(OrderById(startAfter(dec, firestoreWhere(st, qo), orderByOf(dec)), orderByOf(dec)),
         limit + 1)

\* the object returned: every document of the snapshot as data, with the
\* pagination of the paginator's page
firestoreResult(docs, paginatedResult) ==
    [data |-> toDomainAll(docs), pagination |-> paginatedResult.pagination]

\* FirestoreBaseRepository.findManyPaginated(paginationOptions)
Firestore_findManyPaginatedOf(docs, opts) ==
    firestoreResult(docs, buildResult("id", toDomainAll(docs), opts).page)
Firestore_findManyPaginated(st, opts, qo) ==
    Firestore_findManyPaginatedOf(firestoreDocs(st, decodedOf(opts), opts.limit, qo), opts)

\* FirestoreBaseRepository.findMany(options), FirestoreBaseRepository.count(options)
Firestore_findMany(st, qo) == {toDomain(r) : r \in firestoreWhere(st, qo)}
Firestore_count(st, qo) == Cardinality(firestoreWhere(st, qo))

\* the calls on the repository in use
findManyPaginatedWhere(rp, st, opts, qo) ==
    IF rp = "prisma" THEN Prisma_findManyPaginated(st, opts, qo)
    ELSE Firestore_findManyPaginated(st, opts, qo)
findMany(rp, st, qo) ==
    IF rp = "prisma" THEN Prisma_findMany(st, qo) ELSE Firestore_findMany(st, qo)
count(rp, st, qo) ==
    IF rp = "prisma" THEN Prisma_count(st, qo) ELSE Firestore_count(st, qo)

\* findManyPaginated(paginationOptions), queryOptions not given
findManyPaginated(rp, st, opts) == findManyPaginatedWhere(rp, st, opts, NoQueryOptions)

\* i1, i2, ...
RecordIds == {<<105, 48 + n>> : n \in 1..MaxRecords}
RecordOf(t) == [id |-> JStr(t), deletedAt |-> JNull]
Stores == {{RecordOf(t) : t \in ts} : ts \in SUBSET RecordIds}
IdsOf(st) == {r.id.s : r \in st}

\* the cursor of a first call: absent, empty, not decodable, a cursor of
\* either direction at a record id, or one with a direction decode passes
RepoCursorInputs ==
    {Undefined, JStr(<<>>), JStr(TextInvalidBase64), JStr(TokenOf(PayloadWords)),
     JStr(TokenOf(PayloadSideways))}
      \cup {JStr(encode("id", JStr(t), d)) : t \in RecordIds, d \in Directions}

RepoOptions ==
    [limit : 1..MaxPageLimit, cursor : RepoCursorInputs,
     defaultDirection : {Undefined, Forward, Backward}]

\* the ids of a page's data, in order
DataIds(pg) == [i \in 1..Len(pg.data) |-> pg.data[i].id.s]

InitRepo ==
    /\ IdleExceptRepo
    /\ repo \in {"prisma", "firestore"}
    /\ store \in Stores
    /\ request = NoOptions
    /\ response = NoPage
    /\ seen = <<>>
    /\ walking = FALSE
    /\ fetches = 0
    /\ writes = 0
    /\ survivors = {}

\* the first call of findManyPaginated, with any options
Fetch ==
    /\ repo # "none"
    /\ fetches = 0
    /\ \E opts \in RepoOptions :
         /\ request' = opts
         /\ response' = findManyPaginated(repo, store, opts)
         /\ seen' = DataIds(findManyPaginated(repo, store, opts))
         /\ walking' = (opts.cursor = Undefined /\ opts.defaultDirection # Backward)
    /\ fetches' = 1
    /\ survivors' = IdsOf(store)
    /\ UNCHANGED <<repo, store, writes>>
    /\ UNCHANGED exceptRepoVars

\* the options of the next call of a traversal
NextOptions == [request EXCEPT !.cursor = response.pagination.nextCursor]

\* the next call of a forward traversal, with the page's nextCursor
FetchNext ==
    /\ walking
    /\ response.pagination.hasNextPage
    /\ response.pagination.nextCursor # JNull
    /\ fetches <= MaxRecords + MaxWrites
    /\ request' = NextOptions
    /\ response' = findManyPaginated(repo, store, NextOptions)
    /\ seen' = seen \o DataIds(findManyPaginated(repo, store, NextOptions))
    /\ fetches' = fetches + 1
    /\ UNCHANGED <<repo, store, walking, writes, survivors>>
    /\ UNCHANGED exceptRepoVars

\* another client creates a record between two fetches of a traversal
Insert ==
    /\ walking
    /\ response.pagination.hasNextPage
    /\ writes < MaxWrites
    /\ \E t \in RecordIds \ IdsOf(store) : store' = store \cup {RecordOf(t)}
    /\ writes' = writes + 1
    /\ UNCHANGED <<repo, request, response, seen, walking, fetches, survivors>>
    /\ UNCHANGED exceptRepoVars

\* another client deletes a record between two fetches of a traversal
Delete ==
    /\ walking
    /\ response.pagination.hasNextPage
    /\ writes < MaxWrites
    /\ \E r \in store :
         /\ store' = store \ {r}
         /\ survivors' = survivors \ {r.id.s}
    /\ writes' = writes + 1
    /\ UNCHANGED <<repo, request, response, seen, walking, fetches>>
    /\ UNCHANGED exceptRepoVars

NextRepo == Fetch \/ FetchNext \/ Insert \/ Delete

SpecRepo == InitRepo /\ [][NextRepo]_vars

\* the cursor given is a string that decode returns null for
CursorDoesNotDecode(opts) ==
    opts.cursor.t = "str" /\ decode("id", opts.cursor.s).null

\* C16: invalid cursor handled as no cursor.  A call with a cursor string
\* that does not decode returns the same page, data and all pagination
\* metadata, as the same call with no cursor on the same collection.
InvalidCursorAsNoCursor ==
    (fetches = 1 /\ CursorDoesNotDecode(request))
        => response = findManyPaginated(repo, store, [request EXCEPT !.cursor = Undefined])

\* C17: page size at the repository boundary.  Every page returned by
\* findManyPaginated of either repository has data.length <= limit and
\* pagination.count = data.length.
PageSizeAtBoundary ==
    fetches >= 1
        => /\ Len(response.data) <= request.limit
           /\ response.pagination.count = Len(response.data)

\* the ids of the sequence ascend strictly
Ascending(ids) == \A i, j \in 1..Len(ids) : i < j => TextLess(ids[i], ids[j])

\* C18: ascending presentation at the repository boundary.  Every page
\* returned by findManyPaginated of either repository lists its data in
\* ascending id order, and its nextCursor and prevCursor refer to the last
\* and the first item of that data.
AscendingAtBoundary ==
    fetches >= 1
        => /\ Ascending(DataIds(response))
           /\ response.pagination.nextCursor # JNull
                => decode("id", response.pagination.nextCursor.s).value
                     = response.data[Len(response.data)].id
           /\ response.pagination.prevCursor # JNull
                => decode("id", response.pagination.prevCursor.s).value
                     = response.data[1].id

\* the ids of the store in ascending order
SortedIds(st) == [i \in 1..Cardinality(st) |-> OrderAsc(st)[i].id.s]

\* the first n elements
Prefix(arr, n) == SubSeq(arr, 1, n)

\* C19: complete forward traversal.  On an unchanging collection, walking
\* PrismaBaseRepository.findManyPaginated from no cursor along nextCursor:
\* the data fetched so far is always the start of the collection in
\* ascending id order (nothing skipped, nothing repeated), every page
\* before the last is full, so that the walk ends within
\* (collection size / limit) + 1 fetches, and when a page has hasNextPage
\* false the data fetched is the whole collection.
CompleteForwardTraversal ==
    (repo = "prisma" /\ walking /\ writes = 0)
        => /\ Len(seen) <= Cardinality(store)
           /\ seen = Prefix(SortedIds(store), Len(seen))
           /\ response.pagination.hasNextPage
                => Len(seen) = fetches * request.limit /\ Len(seen) < Cardinality(store)
           /\ ~response.pagination.hasNextPage => seen = SortedIds(store)
           /\ fetches <= (Cardinality(store) \div request.limit) + 1

CompleteForwardTraversalWitness ==
    /\ repo = "prisma"
    /\ walking
    /\ writes = 0
    /\ request.limit = 2
    /\ fetches = 2
    /\ Cardinality(store) = 4
    /\ ~response.pagination.hasNextPage
    /\ Len(seen) = 4

\* C20: traversal stability under concurrent writes.  While other clients
\* insert and delete records between the fetches of a forward traversal,
\* no record is returned in two pages, and when the traversal has ended
\* every record in the store ever since the first fetch has been returned.
TraversalStable ==
    walking
        => /\ \A i, j \in 1..Len(seen) : i # j => seen[i] # seen[j]
           /\ ~response.pagination.hasNextPage
                => \A t \in survivors : \E i \in 1..Len(seen) : seen[i] = t

\* the page fetched with the nextCursor, and with the prevCursor, of a page
FollowNext(rp, st, opts, pg) ==
    findManyPaginated(rp, st, [opts EXCEPT !.cursor = pg.pagination.nextCursor])
FollowPrev(rp, st, opts, pg) ==
    findManyPaginated(rp, st, [opts EXCEPT !.cursor = pg.pagination.prevCursor])

\* going back from Q gives R with the data of P, and forward again from R
\* gives the data of Q
RoundTripBack(rp, st, opts, pgP, pgQ, pgR) ==
    /\ pgR.data = pgP.data
    /\ pgR.pagination.nextCursor # JNull
    /\ FollowNext(rp, st, opts, pgR).data = pgQ.data

RoundTripFrom(rp, st, opts, pgP, pgQ) ==
    /\ pgQ.pagination.prevCursor # JNull
    /\ RoundTripBack(rp, st, opts, pgP, pgQ, FollowPrev(rp, st, opts, pgQ))

\* C21: previous/next round trip.  On an unchanging collection, for every
\* forward page P with hasNextPage true, with Q the page fetched with
\* P.nextCursor: the page fetched with Q.prevCursor has the data of P, and
\* the page fetched with that page's nextCursor has the data of Q.
PrevNextRoundTrip ==
    (/\ fetches >= 1
     /\ writes = 0
     /\ resolveDirection("id", request) = Forward
     /\ response.pagination.hasNextPage)
        => RoundTripFrom(repo, store, request, response,
                         FollowNext(repo, store, request, response))

\* C22: only two directions are ever used.  For every cursor string a
\* client can send, a forged token with an unknown d or without d included,
\* the page buildResult returns is the page the algorithm defines for
\* effective direction forward or the one it defines for backward, never a
\* mixture of the two.
OnlyTwoDirections ==
    calls > 0
        => \/ page = buildDirected(kind, callEntities, options, Forward).page
           \/ page = buildDirected(kind, callEntities, options, Backward).page

\* C23: the two codecs agree.  Cursor.decode(t) and the decode of a
\* string-id CursorPaginator both return null or both return the same
\* (value, direction), and c.encode() is the token CursorPaginator.encode
\* makes of the value and direction of c.
CodecsAgree ==
    /\ (vpc # "off" /\ voOrigin = "encode")
         => voToken.s = encode("id", voCursor.value, voCursor.direction)
    /\ CursorDecoded => voDecoded = decode("id", voToken.s)

(***************************************************************************)
(* Repository writes.  update, delete and softDelete of both repositories  *)
(* await exists(id) and then await the write; callers interleave at the    *)
(* awaits.  findMany, findManyPaginated and count read the store between.  *)
(***************************************************************************)
\* largest number of update, delete and softDelete calls
MaxOps == 2

\* i1, i2
WriteIds == {<<105, 49>>, <<105, 50>>}
WriteOps == {"update", "delete", "softDelete"}
\* new Date() of softDelete
Now == JDate(19737, 37800000)

EntityNotFoundError(entityId) == [name |-> "EntityNotFoundError", entityId |-> entityId]
\* the promise of the call rejected
Raised == [raised |-> TRUE]
InFlight(c) == callers[c].pc \in {"exists", "write"}

exists_always(st, id) == TRUE
\* count({ where: { id } }) > 0, doc(id).get().exists
exists(st, id) == \E r \in st : r.id = JStr(id)

\* the store after the write of op reached the record with that id:
\* update writes the entity's own fields, which hold no deletedAt
written(op, st, id) ==
    IF op = "delete" THEN {r \in st : r.id # JStr(id)}
    ELSE IF op = "softDelete"
    THEN {IF r.id = JStr(id) THEN [r EXCEPT !.deletedAt = Now] ELSE r : r \in st}
    ELSE st

\* the write of op rejects when no record has the id: update and delete of
\* a Prisma delegate and update of a Firestore document do, delete of a
\* Firestore document does not
rejectsMissing(rp, op) == rp = "prisma" \/ op # "delete"

\* ok(this.toDomain(record)), ok(entity), ok(undefined)
returned(op, id) == IF op = "update" THEN ok([id |-> JStr(id)]) ELSE ok(Undefined)

\* what the first await of a call leaves of the caller
afterExists(cl, st) ==
    IF exists(st, cl.id)
    THEN [cl EXCEPT !.pc = "write"]
    ELSE [cl EXCEPT !.pc = "done", !.out = err(EntityNotFoundError(cl.id))]

\* what the second await of a call leaves of the caller
afterWrite(rp, cl, st) ==
    IF exists(st, cl.id) \/ ~rejectsMissing(rp, cl.op)
    THEN [cl EXCEPT !.pc = "done", !.out = returned(cl.op, cl.id), !.wrote = 1,
                    !.gone = ~exists(st, cl.id)]
    ELSE [cl EXCEPT !.pc = "done", !.out = Raised, !.gone = TRUE]

\* the records a count call counts
counted(rp, st, qo) ==
    IF rp = "prisma" THEN Matching(st, buildWhereClause(qo)) ELSE firestoreWhere(st, qo)

WriteStores == {{RecordOf(t) : t \in ts} : ts \in SUBSET WriteIds}
\* no filter, a filter on the id i1 and a filter on deletedAt
WhereSet ==
    {NoWhere, [id |-> JStr(<<105, 49>>), deletedAt |-> Undefined],
     [id |-> Undefined, deletedAt |-> Now]}
QueryOptionsSet == [where : WhereSet, includeSoftDeleted : BOOLEAN]
QueryPaginations ==
    [limit : 1..MaxPageLimit,
     cursor : {Undefined, JStr(encode("id", JStr(<<105, 49>>), Forward))},
     defaultDirection : {Undefined}]

\* the ids a query call returned or counted
QueryIds(method, rp, st, opts, qo) ==
    IF method = "findMany" THEN {e.id.s : e \in findMany(rp, st, qo)}
    ELSE IF method = "count" THEN IdsOf(counted(rp, st, qo))
    ELSE {findManyPaginatedWhere(rp, st, opts, qo).data[i].id.s :
            i \in 1..Len(findManyPaginatedWhere(rp, st, opts, qo).data)}

InitWrite ==
    /\ IdleExceptWrite
    /\ repo \in {"prisma", "firestore"}
    /\ store \in WriteStores
    /\ callers = [c \in Callers |-> IdleCaller]
    /\ hidden = {}
    /\ query = NoQuery
    /\ ops = 0

\* a caller calls update(entity), delete(id) or softDelete(id)
CallWrite(c) ==
    /\ repo # "none"
    /\ query = NoQuery
    /\ callers[c] = IdleCaller
    /\ ops < MaxOps
    /\ \E op \in WriteOps, id \in WriteIds :
         callers' =
             [d \in Callers |->
                IF d = c
                THEN [IdleCaller EXCEPT !.op = op, !.id = id, !.pc = "exists",
                                        !.existed = exists(store, id),
                                        !.overlapped = \E e \in Callers \ {c} : InFlight(e)]
                ELSE [callers[d] EXCEPT !.overlapped = @ \/ InFlight(d)]]
    /\ ops' = ops + 1
    /\ UNCHANGED <<repo, store, hidden, query>>
    /\ UNCHANGED exceptWriteVars

\* await this.exists(id) resolves
AwaitExists(c) ==
    /\ query = NoQuery
    /\ callers[c].pc = "exists"
    /\ callers' = [callers EXCEPT ![c] = afterExists(callers[c], store)]
    /\ UNCHANGED <<repo, store, hidden, query, ops>>
    /\ UNCHANGED exceptWriteVars

\* the awaited write settles and the call returns
AwaitWrite(c) ==
    /\ query = NoQuery
    /\ callers[c].pc = "write"
    /\ callers' = [callers EXCEPT ![c] = afterWrite(repo, callers[c], store)]
    /\ store' = IF exists(store, callers[c].id)
                THEN written(callers[c].op, store, callers[c].id)
                ELSE store
    /\ hidden' = IF callers[c].op = "softDelete" /\ exists(store, callers[c].id)
                 THEN hidden \cup {callers[c].id}
                 ELSE hidden
    /\ UNCHANGED <<repo, query, ops>>
    /\ UNCHANGED exceptWriteVars

\* the caller has the Result of its call
Settle(c) ==
    /\ query = NoQuery
    /\ callers[c].pc = "done"
    /\ callers' = [callers EXCEPT ![c] = IdleCaller]
    /\ UNCHANGED <<repo, store, hidden, query, ops>>
    /\ UNCHANGED exceptWriteVars

\* no write call is in flight or unsettled
Quiet == \A c \in Callers : callers[c] = IdleCaller

\* what a query call of that method returns, with the ids it holds
Queried(method, rp, st, opts, qo) ==
    [method |-> method, qo |-> qo, ids |-> QueryIds(method, rp, st, opts, qo),
     n |-> IF method = "count" THEN count(rp, st, qo) ELSE 0]

\* a findMany or count call between write calls
RunQuery ==
    /\ repo # "none"
    /\ Quiet
    /\ query = NoQuery
    /\ \E method \in {"findMany", "count"}, qo \in QueryOptionsSet :
         query' = Queried(method, repo, store, NoOptions, qo)
    /\ UNCHANGED <<repo, store, callers, hidden, ops>>
    /\ UNCHANGED exceptWriteVars

\* a findManyPaginated call between write calls
RunQueryPaginated ==
    /\ repo # "none"
    /\ Quiet
    /\ query = NoQuery
    /\ \E qo \in QueryOptionsSet, opts \in QueryPaginations :
         query' = Queried("findManyPaginated", repo, store, opts, qo)
    /\ UNCHANGED <<repo, store, callers, hidden, ops>>
    /\ UNCHANGED exceptWriteVars

\* the caller of the query has its result
ReturnQuery ==
    /\ query # NoQuery
    /\ query' = NoQuery
    /\ UNCHANGED <<repo, store, callers, hidden, ops>>
    /\ UNCHANGED exceptWriteVars

NextWrite ==
    \/ \E c \in Callers : CallWrite(c)
    \/ \E c \in Callers : AwaitExists(c)
    \/ \E c \in Callers : AwaitWrite(c)
    \/ \E c \in Callers : Settle(c)
    \/ RunQuery
    \/ RunQueryPaginated
    \/ ReturnQuery

SpecWrite == InitWrite /\ [][NextWrite]_vars

\* C24: soft-deleted records are hidden by default.  After softDelete(id)
\* has returned Ok, no later findMany, findManyPaginated or count call made
\* without includeSoftDeleted returns or counts the record with that id,
\* whatever where filter is given.
SoftDeletedHidden ==
    (query # NoQuery /\ ~query.qo.includeSoftDeleted) => query.ids \cap hidden = {}

\* the Results that are Ok
IsOkOut(out) == out \in {ok(Undefined)} \cup {ok([id |-> JStr(t)]) : t \in WriteIds}

\* the call of caller c ends at its exists check in this step
EndsAtCheck(c) == callers[c].pc = "exists" /\ callers'[c].pc # "exists"
\* the write of the call of caller c settles in this step
EndsAtWrite(c) == callers[c].pc = "write" /\ callers'[c].pc # "write"

\* C25: missing entity is an error value.  update(entity), delete(id) and
\* softDelete(id) called when the store holds no record with that id return
\* Err(EntityNotFoundError) naming that id, perform no write and leave the
\* store unchanged; when the record exists they return Ok and perform
\* exactly the one write.
MissingEntityIsError ==
    [][\A c \in Callers :
         /\ (EndsAtCheck(c) /\ callers[c].id \notin IdsOf(store))
              => /\ callers'[c].pc = "done"
                 /\ callers'[c].out = err(EntityNotFoundError(callers[c].id))
                 /\ callers'[c].wrote = 0
                 /\ store' = store
         /\ (EndsAtCheck(c) /\ callers[c].id \in IdsOf(store))
              => callers'[c].pc = "write" /\ store' = store
         /\ (EndsAtWrite(c) /\ callers[c].id \in IdsOf(store))
              => /\ callers'[c].pc = "done"
                 /\ IsOkOut(callers'[c].out)
                 /\ callers'[c].wrote = 1
                 /\ \A d \in Callers \ {c} : callers'[d].wrote = callers[d].wrote]_vars

\* one call has returned Err(EntityNotFoundError) without a write and another
\* has returned Ok after its one write
MissingEntityIsErrorWitness ==
    \E c, d \in Callers :
        /\ callers[c].pc = "done"
        /\ callers[c].out = err(EntityNotFoundError(callers[c].id))
        /\ callers[c].wrote = 0
        /\ callers[d].pc = "done"
        /\ IsOkOut(callers[d].out)
        /\ callers[d].wrote = 1
        /\ ~callers[d].gone

\* two calls for one id that existed when each was made, each made or
\* running while the other was in flight, both returned: two deletes, or a
\* delete and an update
ConcurrentPair(c, d) ==
    /\ c # d
    /\ callers[c].pc = "done" /\ callers[d].pc = "done"
    /\ callers[c].id = callers[d].id
    /\ callers[c].existed /\ callers[d].existed
    /\ callers[c].overlapped /\ callers[d].overlapped
    /\ callers[c].op = "delete"
    /\ callers[d].op \in {"delete", "update"}

\* C26: concurrent deletes of one record.  When two delete(id) calls, or a
\* delete and an update, for the same existing id run interleaved at their
\* awaits, exactly one returns Ok and the other Err(EntityNotFoundError);
\* neither raises an exception and neither reports Ok for a record that was
\* already gone when its write ran.
ConcurrentDeletes ==
    \A c, d \in Callers :
        ConcurrentPair(c, d)
            => /\ \/ /\ IsOkOut(callers[c].out)
                     /\ callers[d].out = err(EntityNotFoundError(callers[d].id))
                  \/ /\ IsOkOut(callers[d].out)
                     /\ callers[c].out = err(EntityNotFoundError(callers[c].id))
               /\ callers[c].out # Raised /\ callers[d].out # Raised
               /\ IsOkOut(callers[c].out) => ~callers[c].gone
               /\ IsOkOut(callers[d].out) => ~callers[d].gone

(***************************************************************************)
(* The dependency injection container.                                     *)
(***************************************************************************)
\* largest number of calls made on the container
MaxContainerOps == 4

\* an object, with its identity
Ref(n) == JV("ref", <<n>>, <<>>)
\* the number 0
Zero == JNum(<<48>>)

\* !x is false
ToBoolean(x) ==
    ~ \/ x.t \in {"undefined", "null"}
      \/ x.t = "num" /\ x.s = <<48>>
      \/ x.t = "str" /\ x.s = <<>>

\* the factories registered: () => new SocketIOService(), a factory whose
\* product is 0, and (c) => c.resolve(TOKENS.LoggerFactory).create('app')
FactoriesOf(t) == IF t = "Logger" THEN {"logger"} ELSE {"service", "zero"}

registerSingleton_keepsInstance(regs, t, factory) ==
    [regs EXCEPT ![t] = [factory |-> factory, lifecycle |-> "singleton",
                         given |-> Undefined,
                         instance |-> IF regs[t] = NoRegistration THEN Undefined
                                      ELSE regs[t].instance]]
registerSingleton(regs, t, factory) ==
    [regs EXCEPT ![t] = [factory |-> factory, lifecycle |-> "singleton",
                         given |-> Undefined, instance |-> Undefined]]

registerTransient(regs, t, factory) ==
    [regs EXCEPT ![t] = [factory |-> factory, lifecycle |-> "transient",
                         given |-> Undefined, instance |-> Undefined]]

\* the factory is () => instance
registerInstance(regs, t, instance) ==
    [regs EXCEPT ![t] = [factory |-> "instance", lifecycle |-> "singleton",
                         given |-> instance, instance |-> instance]]

isRegistered(regs, t) == regs[t] # NoRegistration

clear(regs) == [t \in Tokens |-> NoRegistration]

\* a resolve call made: its token, whether it invoked the factory, whether
\* it threw, and what it returned
Event(t, ran, threw, value) ==
    [token |-> t, invoked |-> ran, threw |-> threw, value |-> value]

\* what a call leaves: thrown or the value, the registrations, the next
\* identity, and the resolve calls made, innermost first
Outcome(threw, value, regs, nid, events) ==
    [threw |-> threw, value |-> value, regs |-> regs, nid |-> nid, events |-> events]

\* registration.instance = value, for a singleton
cache(regs, t, value) ==
    IF regs[t].lifecycle = "singleton" THEN [regs EXCEPT ![t].instance = value] ELSE regs

\* the resolve call whose factory call came out as product
settled(t, product) ==
    IF product.threw
    THEN Outcome(TRUE, Undefined, product.regs, product.nid,
                 product.events \o <<Event(t, TRUE, TRUE, Undefined)>>)
    ELSE Outcome(FALSE, product.value, cache(product.regs, t, product.value), product.nid,
                 product.events \o <<Event(t, TRUE, FALSE, product.value)>>)

\* .create('app') of what c.resolve(TOKENS.LoggerFactory) returned
create(inner) ==
    IF inner.threw \/ inner.value.t # "ref"
    THEN Outcome(TRUE, Undefined, inner.regs, inner.nid, inner.events)
    ELSE Outcome(FALSE, Ref(inner.nid), inner.regs, inner.nid + 1, inner.events)

RECURSIVE resolve(_, _, _)
\* registration.factory(this)
invoke(regs, t, nid) ==
    IF regs[t].factory = "service" THEN Outcome(FALSE, Ref(nid), regs, nid + 1, <<>>)
    ELSE IF regs[t].factory = "zero" THEN Outcome(FALSE, Zero, regs, nid, <<>>)
    ELSE IF regs[t].factory = "instance" THEN Outcome(FALSE, regs[t].given, regs, nid, <<>>)
    ELSE create(resolve(regs, "LoggerFactory", nid))

resolve(regs, t, nid) ==
    IF ~isRegistered(regs, t)
    THEN Outcome(TRUE, Undefined, regs, nid, <<Event(t, FALSE, TRUE, Undefined)>>)
    ELSE IF regs[t].lifecycle = "singleton" /\ ToBoolean(regs[t].instance)
    THEN Outcome(FALSE, regs[t].instance, regs, nid,
                 <<Event(t, FALSE, FALSE, regs[t].instance)>>)
    ELSE settled(t, invoke(regs, t, nid))

\* the resolve calls of the events that are for token t
EventsOf(events, t) == {i \in DOMAIN events : events[i].token = t}

InitContainer ==
    /\ IdleExceptContainer
    /\ registrations = [t \in Tokens |-> NoRegistration]
    /\ invocations = [t \in Tokens |-> 0]
    /\ resolves = [t \in Tokens |-> 0]
    /\ firstResolved = [t \in Tokens |-> Undefined]
    /\ lastResolve = NoResolve
    /\ registered = {}
    /\ replaced = [t \in Tokens |-> Undefined]
    /\ nextId = 1
    /\ cops = 0

\* the bookkeeping of a register* call for token t
Registered(t) ==
    /\ invocations' = [invocations EXCEPT ![t] = 0]
    /\ resolves' = [resolves EXCEPT ![t] = 0]
    /\ firstResolved' = [firstResolved EXCEPT ![t] = Undefined]
    /\ lastResolve' = NoResolve
    /\ registered' = registered \cup {t}
    /\ replaced' = [replaced EXCEPT ![t] = IF isRegistered(registrations, t)
                                           THEN registrations[t].instance
                                           ELSE Undefined]
    /\ cops' = cops + 1
    /\ UNCHANGED exceptContainerVars

RegisterSingleton ==
    /\ cops < MaxContainerOps
    /\ \E t \in Tokens :
         /\ \E factory \in FactoriesOf(t) :
              registrations' = registerSingleton(registrations, t, factory)
         /\ Registered(t)
    /\ UNCHANGED nextId

RegisterTransient ==
    /\ cops < MaxContainerOps
    /\ \E t \in Tokens :
         /\ \E factory \in FactoriesOf(t) :
              registrations' = registerTransient(registrations, t, factory)
         /\ Registered(t)
    /\ UNCHANGED nextId

\* registerInstance of an object made for it, or of 0
RegisterInstance ==
    /\ cops < MaxContainerOps
    /\ \E t \in Tokens :
         /\ \/ /\ registrations' = registerInstance(registrations, t, Ref(nextId))
               /\ nextId' = nextId + 1
            \/ /\ registrations' = registerInstance(registrations, t, Zero)
               /\ nextId' = nextId
         /\ Registered(t)

\* the bookkeeping of a resolve(t) call that came out as out
Resolved(t, out) ==
    /\ registrations' = out.regs
    /\ nextId' = out.nid
    /\ invocations' =
         [u \in Tokens |->
            invocations[u]
              + Cardinality({i \in EventsOf(out.events, u) : out.events[i].invoked})]
    /\ resolves' = [u \in Tokens |-> resolves[u] + Cardinality(EventsOf(out.events, u))]
    /\ firstResolved' =
         [u \in Tokens |->
            IF firstResolved[u] = Undefined
                 /\ \E i \in EventsOf(out.events, u) : ~out.events[i].threw
            THEN out.events[CHOOSE i \in EventsOf(out.events, u) : ~out.events[i].threw].value
            ELSE firstResolved[u]]
    /\ lastResolve' =
         [token |-> t, threw |-> out.threw, value |-> out.value,
          invoked |-> out.events[Len(out.events)].invoked,
          wasRegistered |-> isRegistered(registrations, t),
          first |-> resolves[t] = 0]

Resolve ==
    /\ cops < MaxContainerOps
    /\ \E t \in Tokens : Resolved(t, resolve(registrations, t, nextId))
    /\ cops' = cops + 1
    /\ UNCHANGED <<registered, replaced>>
    /\ UNCHANGED exceptContainerVars

Clear ==
    /\ cops < MaxContainerOps
    /\ registrations' = clear(registrations)
    /\ invocations' = [t \in Tokens |-> 0]
    /\ resolves' = [t \in Tokens |-> 0]
    /\ firstResolved' = [t \in Tokens |-> Undefined]
    /\ lastResolve' = NoResolve
    /\ registered' = {}
    /\ replaced' = [t \in Tokens |-> Undefined]
    /\ cops' = cops + 1
    /\ UNCHANGED nextId
    /\ UNCHANGED exceptContainerVars

NextContainer ==
    RegisterSingleton \/ RegisterTransient \/ RegisterInstance \/ Resolve \/ Clear

SpecContainer == InitContainer /\ [][NextContainer]_vars

\* the registration of t was made by registerSingleton
BySingleton(t) ==
    /\ isRegistered(registrations, t)
    /\ registrations[t].lifecycle = "singleton"
    /\ registrations[t].factory # "instance"

\* the registration of t was made by registerTransient
ByTransient(t) ==
    isRegistered(registrations, t) /\ registrations[t].lifecycle = "transient"

\* C27: singleton lifecycle of the container.  For a token registered with
\* registerSingleton and not registered again, over any sequence of resolve
\* calls the factory is invoked at most once and every resolve returns the
\* very instance the first resolve returned, whatever value the factory
\* produces; for a token registered with registerTransient the factory is
\* invoked once per resolve.
SingletonLifecycle ==
    \A t \in Tokens :
        /\ BySingleton(t)
             => /\ invocations[t] <= 1
                /\ (lastResolve # NoResolve /\ lastResolve.token = t /\ ~lastResolve.threw)
                     => lastResolve.value = firstResolved[t]
        /\ ByTransient(t) => invocations[t] = resolves[t]

\* isRegistered(t) is true exactly when a register* call for t happened
\* after the last clear()
RegisteredSinceClear == \A t \in Tokens : isRegistered(registrations, t) <=> t \in registered

\* the first resolve after a register* call uses the new registration: it
\* returns the instance given, or invokes the new factory and returns its
\* product, and never the instance the replaced registration had cached
UsesNewRegistration ==
    (lastResolve # NoResolve /\ lastResolve.first /\ ~lastResolve.threw)
        => /\ IF registrations[lastResolve.token].factory = "instance"
              THEN lastResolve.value = registrations[lastResolve.token].given
              ELSE /\ lastResolve.invoked
                   /\ lastResolve.value =
                        IF registrations[lastResolve.token].factory = "zero"
                        THEN Zero
                        ELSE Ref(nextId - 1)
           /\ ToBoolean(replaced[lastResolve.token])
                => lastResolve.value # replaced[lastResolve.token]

\* C28, as stated: registration state of the container.  isRegistered(token)
\* is true exactly when a register* call for that token happened after the
\* last clear(); resolve(token) throws an Error exactly when
\* isRegistered(token) is false; and a later register* call replaces the
\* earlier registration, so the next resolve uses the new factory and not a
\* cached instance of the old one.
RegistrationStateStrict ==
    /\ RegisteredSinceClear
    /\ lastResolve # NoResolve => (lastResolve.threw <=> ~lastResolve.wasRegistered)
    /\ UsesNewRegistration

\* C28, amended: registration state of the container.  isRegistered(token)
\* is true exactly when a register* call for that token happened after the
\* last clear(); resolve(token) throws whenever isRegistered(token) is
\* false, without invoking a factory, and when isRegistered(token) is true
\* it throws only out of the factory it invokes; and a later register* call
\* replaces the earlier registration, so the next resolve uses the new
\* factory and not a cached instance of the old one.
RegistrationState ==
    /\ RegisteredSinceClear
    /\ lastResolve # NoResolve
         => /\ ~lastResolve.wasRegistered => (lastResolve.threw /\ ~lastResolve.invoked)
            /\ (lastResolve.wasRegistered /\ lastResolve.threw) => lastResolve.invoked
    /\ UsesNewRegistration

\* a token whose earlier registration had cached an instance was registered
\* again and then resolved: the resolve returned another instance
RegistrationStateWitness ==
    /\ lastResolve # NoResolve
    /\ lastResolve.first
    /\ ~lastResolve.threw
    /\ ToBoolean(replaced[lastResolve.token])
    /\ lastResolve.value # replaced[lastResolve.token]

====
